---- MODULE Spec2Model ----
(***************************************************************************)
(* KomoChat: connection establishment and chat sessions.                   *)
(*                                                                         *)
(* Spec models the KomoChat object of Chat.py (smart_connect,              *)
(* connect_to_relay, start_chat_session, receive_thread_func) driven by    *)
(* the loop of main().  SpecDirect models KomoChat.py (start_sender,       *)
(* start_receiver, chat_session, receive_messages).                        *)
(* SpecEither runs one of the two programs, for the properties that are    *)
(* stated of both.  SpecReceive runs receive_message of Chat.py in its     *)
(* receive thread over payloads that include JSON documents.               *)
(*                                                                         *)
(* A socket object is a record.  st is "none" for Python's None, "open"    *)
(* for a socket whose descriptor is open, "closed" after close().  conn is *)
(* the state of the TCP connection, buf the frames the peer has written    *)
(* and the local side has not read yet, est the number of the call that    *)
(* established the socket as a chat transport, closes the number of        *)
(* close() calls that closed it.  CPython finalises a socket as soon as    *)
(* its last reference is dropped: in Chat.py rebinding self.socket or      *)
(* self.peer_socket closes the socket bound before, so that only the two   *)
(* attributes hold live sockets.                                           *)
(*                                                                         *)
(* One recv(1024) on a TCP stream returns whatever has arrived: the frames *)
(* of several sends may be delivered merged.  A received text is the       *)
(* sequence of the frames merged in it.                                    *)
(*                                                                         *)
(* SpecPunch runs the HolePunchNegotiator of a host and a guest over a     *)
(* datagram network that may drop datagrams and deliver them in any order. *)
(* A wait's timeout expires only when no datagram for the waiting side is  *)
(* on its way and the other side will send none.                           *)
(*                                                                         *)
(* SpecDiscovery runs one exchange of resolvePublic with a discovery       *)
(* server: the request, the response packet as a sequence of bytes, and    *)
(* the decoding of the address and port at their fixed offsets.            *)
(*                                                                         *)
(* SpecResolver runs get_local_ip and then get_public_ip, as the menus of  *)
(* Chat.py and KomoChat.py call them, over the outcomes of the socket      *)
(* calls and of the HTTP requests.                                         *)
(*                                                                         *)
(* SpecRoom follows a room code of Chat.py from its generation on the host *)
(* to the room_id the guest registers with: a code is a sequence of         *)
(* characters.                                                             *)
(*                                                                         *)
(* SpecRegister runs the registration of connect_to_relay (Chat.py) with   *)
(* the handshake of ChatServer.accept_connections (server.py) on one       *)
(* connection; texts are sequences of characters.                          *)
(*                                                                         *)
(* SpecServer runs the chat server (server.py, ChatServer) with its accept  *)
(* thread and one handler thread per client, each with its own call stack  *)
(* of accept_connections, handle_client, broadcast and remove_client       *)
(* frames; the threads interleave between any two accesses of the shared   *)
(* lists clients and nicknames and of the sockets.                         *)
(*                                                                         *)
(* Terminal rendering (print, clear_screen) is not modelled.  In Spec the   *)
(* peer writes and closes only while the local session is in progress.     *)
(***************************************************************************)
EXTENDS Integers, Sequences, FiniteSets, TLC

\* ---------------------------------------------------------------- bounds
MaxCalls == 2      \* connection attempts made by main's loop
MaxLines == 1      \* lines of user text sent per session
MaxBuf == 2        \* frames the peer may have in flight on one socket
MaxAfter == 2      \* lines counted after the peer's "/exit" was read

\* ------------------------------------------------------------- constants
NumRelays == 3     \* length of relay_servers

\* receive threads: the session of the n-th call starts thread n
Threads == 1..MaxCalls

VARIABLES
    \* Chat.py
    pc,            \* position of the main thread
    socket,        \* self.socket
    peer_socket,   \* self.peer_socket
    running,       \* self.running
    args,          \* arguments (and local room_id) of the smart_connect call
    idx,           \* position of connect_to_relay's for loop in relay_servers
    caller,        \* the method of smart_connect that called connect_to_relay
    wait,          \* whether the remote end of a blocking call will answer, or has
    ncalls,        \* smart_connect calls made so far
    calls,         \* methods invoked by the current smart_connect call, in order
    directOk,      \* the direct TCP connect of the current call succeeded
    result,        \* what the current smart_connect call returned
    regIds,        \* room ids the current call registered with a relay
    contacted,     \* candidates contacted by the current connect_to_relay call
    lastResp,      \* the last response the current connect_to_relay call read
    markedAt,      \* first candidate that answered with the marker (0: none yet)
    rcResult,      \* what the current connect_to_relay call returned
    rx,            \* position of each receive thread ("idle": not started)
    rxDead,        \* receive threads that have read end-of-file or an error
    lines,         \* lines of user text sent in the current session
    sent,          \* frames written in the current session
    lastEnd,       \* why the foreground loop of the last session stopped
    peerExit,      \* the peer has written "/exit" in the current session
    \* KomoChat.py
    kc_pc,         \* position of the main thread
    kc_role,       \* "sender" in start_sender, "receiver" in start_receiver
    kc_calls,      \* start_sender and start_receiver calls made so far
    server_socket, \* server_socket of the current start_receiver call
    client_socket, \* client_socket of each call
    kc_rx,         \* position of the receive_messages thread of each call
    kc_rxEnd,      \* why each receive_messages thread stopped
    kc_peerExit,   \* the peer of each call has written "/exit"
    kc_lines,      \* lines of user text sent in the current session
    kc_sent,       \* frames written in the current session
    kc_end,        \* why the loop of the current chat_session stopped
    kc_after,      \* lines chat_session handled after the peer's "/exit" was read
    kc_last        \* the line chat_session handled last, if it was one of
                   \* DisplayLines

\* receive_message of Chat.py on its own (SpecReceive)
VARIABLES
    rm_pc,         \* where the receive thread is: "idle", "recv", "returned", "head"
    rm_in,         \* what recv(1024) does within the timeout, and on which socket
    rm_out,        \* what receive_message returned
    rm_running     \* self.running

\* HolePunchNegotiator (SpecPunch)
VARIABLES
    hp_host,       \* state of the host's negotiation
    hp_guest,      \* state of the guest's negotiation
    attemptsSent,  \* PunchAttempt.attemptsSent of the guest
    hp_toHost,     \* handshake datagrams on their way to the host's socket
    hp_toGuest,    \* datagrams on their way to, or queued at, the guest's socket
    hp_peer,       \* the peer candidate the host recorded ("none": not yet)
    hp_acks,       \* acknowledgments the host has sent
    hp_lost,       \* datagrams the network has dropped
    hp_strays,     \* datagrams other senders have sent to the guest
    hp_hostGot,    \* datagrams the host has received
    hp_guestGot    \* how the guest's wait ended: the datagram read, or TimedOut

\* one discovery exchange of resolvePublic (SpecDiscovery)
VARIABLES
    rp_pc,         \* "send", "await", "decode" or "done"
    rp_data,       \* the response packet received (<< >>: none)
    rp_out         \* what the exchange yielded

\* get_local_ip and get_public_ip (SpecResolver)
VARIABLES
    ar_prog,       \* the program whose functions run: "Chat" or "KomoChat"
    ar_pc,         \* position in the two calls
    ar_local,      \* what get_local_ip returned
    ar_public,     \* what get_public_ip returned
    ar_tried,      \* the requests get_public_ip has made, with their outcomes
    ar_route,      \* the address the OS route gave the UDP socket ("": none)
    ar_localErr,   \* the exception get_local_ip handled ("none": none)
    ar_raised      \* the exception that escaped a call ("none": none)

\* room codes of Chat.py (SpecRoom)
VARIABLES
    room_pc,       \* "menu", "shown" (the host sees its code) or "joined"
    room_hostId,   \* the room_id the host registers with the relay
    room_typed,    \* what the guest typed at "Enter Room ID: "
    room_guestId   \* the room_id the guest registers with the relay

\* connect_to_relay of Chat.py against ChatServer of server.py (SpecRegister)
VARIABLES
    rg_client,     \* position of connect_to_relay for this candidate
    rg_server,     \* position of accept_connections for this connection
    rg_env,        \* the connect envelope the client sends
    rg_before,     \* clients the server had before this one
    rg_toClient,   \* texts the server has sent and the client has not read
    rg_toServer,   \* envelopes the client has sent and the server has not read
    rg_nickname,   \* the nickname the server recorded for the client
    rg_response,   \* the text the client's recv(1024) returned
    rg_result      \* "none", "success" (return True) or "rejected" (close, next)

\* the chat server of server.py: the two lists, the client sockets, the
\* threads' call stacks, and what has happened to each client
VARIABLES
    sv_clients, sv_nicknames, sv_sock, sv_stack, sv_accepted, sv_messages,
    sv_registered, sv_removals, sv_notices, sv_handshakeFailed, sv_disconnects

sockVars == << socket, peer_socket >>
callVars == << args, idx, caller, wait, ncalls >>
connHist == << calls, directOk, result, regIds >>
relayHist == << contacted, lastResp, markedAt, rcResult >>
sessVars == << running, rx, rxDead, lines, sent, lastEnd, peerExit >>

chatVars == << pc, sockVars, callVars, connHist, relayHist, sessVars >>

directVars == << kc_pc, kc_role, kc_calls, server_socket, client_socket, kc_rx,
                 kc_rxEnd, kc_peerExit, kc_lines, kc_sent, kc_end, kc_after,
                 kc_last >>

recvVars == << rm_pc, rm_in, rm_out, rm_running >>

punchVars == << hp_host, hp_guest, attemptsSent, hp_toHost, hp_toGuest, hp_peer,
                hp_acks, hp_lost, hp_strays, hp_hostGot, hp_guestGot >>

roomVars == << room_pc, room_hostId, room_typed, room_guestId >>

registerVars == << rg_client, rg_server, rg_env, rg_before, rg_toClient, rg_toServer,
                   rg_nickname, rg_response, rg_result >>

serverVars == << sv_clients, sv_nicknames, sv_sock, sv_stack, sv_accepted, sv_messages,
                sv_registered, sv_removals, sv_notices, sv_handshakeFailed, sv_disconnects >>

\* what the actions of one part leave alone: the variables of the other parts
discVars == << rp_pc, rp_data, rp_out >>

resolverVars == << ar_prog, ar_pc, ar_local, ar_public, ar_tried, ar_route,
                   ar_localErr, ar_raised >>

notChat == << directVars, recvVars, punchVars, discVars, resolverVars, roomVars, registerVars, serverVars >>

notDirect == << chatVars, recvVars, punchVars, discVars, resolverVars, roomVars, registerVars, serverVars >>

notReceive == << chatVars, directVars, punchVars, discVars, resolverVars, roomVars, registerVars, serverVars >>

notPunch == << chatVars, directVars, recvVars, discVars, resolverVars, roomVars, registerVars, serverVars >>

notDisc == << chatVars, directVars, recvVars, punchVars, resolverVars, roomVars, registerVars, serverVars >>

notResolver == << chatVars, directVars, recvVars, punchVars, discVars, roomVars, registerVars, serverVars >>

notRoom == << chatVars, directVars, recvVars, punchVars, discVars, resolverVars, registerVars, serverVars >>

notRegister == << chatVars, directVars, recvVars, punchVars, discVars, resolverVars, roomVars, serverVars >>

notServer == << chatVars, directVars, recvVars, punchVars, discVars, resolverVars, roomVars, registerVars >>

vars == << chatVars, directVars, recvVars, punchVars, discVars, resolverVars, roomVars, registerVars, serverVars >>

\* ------------------------------------------------------------- sockets
NoSock == [st |-> "none", conn |-> "none", buf |-> << >>, est |-> 0, closes |-> 0]

\* socket.socket(AF_INET, SOCK_STREAM): a fresh, unconnected socket
NewSock == [st |-> "open", conn |-> "none", buf |-> << >>, est |-> 0, closes |-> 0]

\* sock.close(): closing a closed socket object is a no-op
Close(s) == IF s.st = "open"
            THEN [s EXCEPT !.st = "closed", !.closes = @ + 1]
            ELSE s

\* the last reference to a socket object is dropped
Finalize(s) == IF s.st = "open" THEN [s EXCEPT !.st = "closed"] ELSE s

\* Python truth value of an attribute holding a socket or None
Truthy(s) == s.st # "none"

IsLive(s) == s.st = "open" /\ s.conn = "conn"

\* whether sock.send() can return (TRUE) or raise (FALSE)
SendOutcomes(s) ==
    IF s.st # "open" \/ s.conn \in { "none", "listen", "reset" } THEN { FALSE }
    ELSE IF s.conn = "eof" THEN { TRUE, FALSE }
    ELSE { TRUE }

\* what one recv(1024) on socket s can return: data is the frames delivered
\* (<< >> for b"" and for no data), after the socket afterwards, dead whether
\* recv returned b"" or raised, blocked whether nothing has arrived
Recv(s) ==
    IF s.st # "open" \/ s.conn \in { "none", "listen", "reset" }
    THEN { [data |-> << >>, after |-> s, dead |-> TRUE, blocked |-> FALSE] }
    ELSE IF s.buf # << >>
    THEN { [data |-> SubSeq(s.buf, 1, k),
            after |-> [s EXCEPT !.buf = SubSeq(s.buf, k + 1, Len(s.buf))],
            dead |-> FALSE, blocked |-> FALSE] : k \in 1..Len(s.buf) }
    ELSE IF s.conn = "eof"
    THEN { [data |-> << >>, after |-> s, dead |-> TRUE, blocked |-> FALSE] }
    ELSE { [data |-> << >>, after |-> s, dead |-> FALSE, blocked |-> TRUE] }

\* ------------------------------------------------------------- strings
Str_success == << "s", "u", "c", "c", "e", "s", "s" >>
Str_json_ok == << "{" >> \o Str_success \o << "}" >>
Str_unsuccessful == << "u", "n" >> \o Str_success \o << "f", "u", "l" >>
Str_SUCCESS == << "S", "U", "C", "C", "E", "S", "S" >>
Str_succes == << "s", "u", "c", "c", "e", "s" >>
Str_error == << "e", "r", "r", "o", "r" >>
Str_empty == << >>

\* what a relay may answer to the registration envelope ("" is a closed stream)
Responses == { Str_success, Str_json_ok, Str_unsuccessful, Str_SUCCESS,
               Str_succes, Str_error, Str_empty }

\* the responses above in which the text "success" occurs, read off by hand
TextsWithMarker == { Str_success, Str_json_ok, Str_unsuccessful }

NoResponse == [got |-> FALSE, text |-> Str_empty]

\* Python's `needle in haystack` on str
SubstringAt(needle, haystack, i) ==
    SubSeq(haystack, i, i + Len(needle) - 1) = needle

In(needle, haystack) ==
    \E i \in 1..(Len(haystack) - Len(needle) + 1) : SubstringAt(needle, haystack, i)

\* frames a peer writes
InFrames == { "hi", "/exit" }

\* lines the operator may type; "^C" is KeyboardInterrupt
Inputs == { "/exit", "/EXIT", "/help", "/clear", "/time", "/STATUS", "hi", "^C" }

\* the lines among them that are, in some letter case, the commands that
\* clear the display, show the time and show the status
DisplayLines == { "/clear", "/time", "/STATUS" }

\* a comparison of the line as typed, without lower()
LowerOmitted(m) == m

\* str.lower() on the lines above
Lower(m) ==
    CASE m = "/EXIT" -> "/exit"
      [] m = "/STATUS" -> "/status"
      [] OTHER -> m

\* ---------------------------------------------------- relayed payloads
\* bound: sends whose bytes one recv(1024) may return merged
MaxMerged == 2

\* what one send of the other side carries: a text that is not JSON, a JSON
\* object with its "type" and "content" members ("absent" when it has none),
\* or a JSON document that is not an object
TextFrame(t) == [kind |-> "text", type |-> "absent", content |-> t]

ObjectFrame(t, c) == [kind |-> "object", type |-> t, content |-> c]

ScalarFrame(t) == [kind |-> "scalar", type |-> "absent", content |-> t]

RmFrames ==
    { TextFrame("hi"), TextFrame("/exit"),
      ObjectFrame("message", "hi"), ObjectFrame("message", "/exit"),
      ObjectFrame("message", "absent"), ObjectFrame("join", "hi"),
      ScalarFrame("123") }

RECURSIVE SeqsUpTo(_, _)
SeqsUpTo(S, n) ==
    IF n = 0 THEN { << >> }
    ELSE LET shorter == SeqsUpTo(S, n - 1)
         IN shorter \cup { Append(q, x) : q \in { r \in shorter : Len(r) = n - 1 }, x \in S }

\* one receive_message call: via is the socket it reads (peer_socket if set,
\* else socket), outcome what recv does within the timeout ("data" with no
\* frames is b"", the closed stream)
RmInputs ==
    { [via |-> v, outcome |-> "data", data |-> d] :
          v \in { "peer_socket", "socket" }, d \in SeqsUpTo(RmFrames, MaxMerged) }
    \cup { [via |-> v, outcome |-> o, data |-> << >>] :
          v \in { "peer_socket", "socket" }, o \in { "timeout", "error" } }

NoInput == [via |-> "socket", outcome |-> "timeout", data |-> << >>]

\* return values of receive_message: None, the decoded payload, or the value
\* of the "content" member
None == [tag |-> "None", raw |-> << >>, content |-> ""]

Raw(data) == [tag |-> "raw", raw |-> data, content |-> ""]

Content(c) == [tag |-> "content", raw |-> << >>, content |-> c]

\* json.loads(data.decode()) succeeds: the payload is exactly one JSON
\* document (two documents merged are "Extra data")
JsonLoads(data) == Len(data) = 1 /\ data[1].kind \in { "object", "scalar" }

\* receive_message reading peer_socket: no parsing
receive_message_peer(inp) ==
    IF inp.outcome # "data" \/ inp.data = << >> THEN None ELSE Raw(inp.data)

\* the relayed stream read without parsing
receive_message_unparsed(inp) ==
    IF inp.outcome # "data" \/ inp.data = << >> THEN None ELSE Raw(inp.data)

\* receive_message reading self.socket, the relayed stream
receive_message_relay(inp) ==
    IF inp.outcome # "data" \/ inp.data = << >> THEN None
    ELSE IF ~JsonLoads(inp.data) THEN Raw(inp.data)
    ELSE IF inp.data[1].kind = "scalar" THEN Raw(inp.data)
    ELSE IF inp.data[1].type = "message"
    THEN Content(IF inp.data[1].content = "absent" THEN "" ELSE inp.data[1].content)
    ELSE None

\* `if message:` and `message == "/exit"` in receive_thread_func
MessageTruthy(r) ==
    \/ r.tag = "raw"
    \/ r.tag = "content" /\ r.content # ""

MessageIsExit(r) ==
    \/ r.tag = "raw" /\ r.raw = << TextFrame("/exit") >>
    \/ r.tag = "content" /\ r.content = "/exit"

\* ------------------------------------------------------------ main loop
\* the argument combinations of smart_connect(target_ip, room_id, is_host); an
\* empty room id counts as none.  main() itself passes a room id with is_host
\* True (choice 1) or False (choice 2); its choice 3 (is_host alone, target_ip
\* alone) refers to Colors.Yellow, which does not exist, before the call.
CallSites ==
    [target_ip : { "none", "ip" }, room_id : { "none", "ROOM" }, is_host : BOOLEAN]

NoArgs == [target_ip |-> "none", room_id |-> "none", is_host |-> FALSE]

InitChat ==
    /\ pc = "menu"
    /\ socket = NoSock
    /\ peer_socket = NoSock
    /\ running = FALSE
    /\ args = NoArgs
    /\ idx = 1
    /\ caller = "m3"
    /\ wait = "answer"
    /\ ncalls = 0
    /\ calls = << >>
    /\ directOk = FALSE
    /\ result = "none"
    /\ regIds = << >>
    /\ contacted = << >>
    /\ lastResp = NoResponse
    /\ markedAt = 0
    /\ rcResult = "none"
    /\ rx = [t \in Threads |-> "idle"]
    /\ rxDead = {}
    /\ lines = 0
    /\ sent = << >>
    /\ lastEnd = "none"
    /\ peerExit = FALSE

InitDirect ==
    /\ kc_pc = "menu"
    /\ kc_role = "none"
    /\ kc_calls = 0
    /\ server_socket = NoSock
    /\ client_socket = [t \in Threads |-> NoSock]
    /\ kc_rx = [t \in Threads |-> "idle"]
    /\ kc_rxEnd = [t \in Threads |-> "none"]
    /\ kc_peerExit = [t \in Threads |-> FALSE]
    /\ kc_lines = 0
    /\ kc_sent = << >>
    /\ kc_end = "none"
    /\ kc_after = 0
    /\ kc_last = "none"

InitReceive ==
    /\ rm_pc = "idle"
    /\ rm_in = NoInput
    /\ rm_out = None
    /\ rm_running = FALSE

Datagram(ip, payload) == [from |-> ip, payload |-> payload]

\* the guest's wait has not ended
NoDatagram == Datagram("none", "none")

\* the guest's wait ended without a datagram
TimedOut == Datagram("none", "timeout")

InitPunch ==
    /\ hp_host = "LISTENING"
    /\ hp_guest = "INIT"
    /\ attemptsSent = 0
    /\ hp_toHost = 0
    /\ hp_toGuest = {}
    /\ hp_peer = "none"
    /\ hp_acks = 0
    /\ hp_lost = 0
    /\ hp_strays = 0
    /\ hp_hostGot = 0
    /\ hp_guestGot = NoDatagram

\* an exchange that yielded no address
NoAddress == [ok |-> FALSE, ip |-> << >>, port |-> 0]

InitDiscovery ==
    /\ rp_pc = "send"
    /\ rp_data = << >>
    /\ rp_out = NoAddress

\* a return value not assigned yet, Python's None, and a string
Unset == [tag |-> "unset", text |-> ""]

ReturnedNone == [tag |-> "None", text |-> ""]

Str(t) == [tag |-> "str", text |-> t]

InitResolver ==
    /\ ar_prog = "none"
    /\ ar_pc = "idle"
    /\ ar_local = Unset
    /\ ar_public = Unset
    /\ ar_tried = << >>
    /\ ar_route = ""
    /\ ar_localErr = "none"
    /\ ar_raised = "none"

InitRoom ==
    /\ room_pc = "menu"
    /\ room_hostId = << >>
    /\ room_typed = << >>
    /\ room_guestId = << >>

\* the connect envelope before the client has built one
NoEnvelope == [room_id |-> "none", is_host |-> FALSE, username |-> "none"]

InitRegister ==
    /\ rg_client = "idle"
    /\ rg_server = "listening"
    /\ rg_env = NoEnvelope
    /\ rg_before = 0
    /\ rg_toClient = << >>
    /\ rg_toServer = << >>
    /\ rg_nickname = NoEnvelope
    /\ rg_response = << >>
    /\ rg_result = "none"

\* connections the server accepts in one run
MaxClients == 3

\* chat messages the clients send in one run
MaxMessages == 1

\* clients that go away in one run
MaxDisconnects == 1

ServerClients == 1..MaxClients

AcceptThread == 0

ServerThreads == 0..MaxClients

\* the nicknames a client can answer the NICK prompt with
Nicknames == {"bob", "alice"}

\* a frame of a thread's call stack; a broadcast frame keeps the sender in
\* client (0 is None), the list iterator's position in i, and the clients
\* at its start and those it sent to
Frame(fn, at, client) ==
    [fn |-> fn, pc |-> at, client |-> client, i |-> 0, index |-> 0,
     nick |-> "", msg |-> "", start |-> {}, sent |-> {}]

InitServer ==
    /\ sv_clients = << >>
    /\ sv_nicknames = << >>
    /\ sv_sock = [c \in ServerClients |-> [state |-> "none", up |-> FALSE, closes |-> 0]]
    /\ sv_stack = [t \in ServerThreads |->
                      IF t = AcceptThread THEN << Frame("accept", "accept", 0) >> ELSE << >>]
    /\ sv_accepted = 0
    /\ sv_messages = 0
    /\ sv_registered = [c \in ServerClients |-> ""]
    /\ sv_removals = [c \in ServerClients |-> 0]
    /\ sv_notices = [c \in ServerClients |-> 0]
    /\ sv_handshakeFailed = FALSE
    /\ sv_disconnects = 0

Init ==
    /\ InitChat
    /\ InitDirect
    /\ InitReceive
    /\ InitPunch
    /\ InitDiscovery
    /\ InitResolver
    /\ InitRoom
    /\ InitRegister
    /\ InitServer

\* main(): one pass of the menu loop that leads to chat.smart_connect(...)
main_connect(a) ==
    /\ pc = "menu"
    /\ ncalls < MaxCalls
    /\ pc' = "m1"
    /\ args' = a
    /\ ncalls' = ncalls + 1
    /\ lines' = 0
    /\ sent' = << >>
    /\ lastEnd' = "none"
    /\ peerExit' = FALSE
    /\ UNCHANGED << sockVars, idx, caller, wait, connHist, relayHist, running, rx,
                    rxDead >>
    /\ UNCHANGED notChat

\* main(): `if chat.smart_connect(...): chat.start_chat_session(...)`; an
\* exception that smart_connect lets through reaches the except clauses of
\* main, whose print raises AttributeError (Colors.Yellow, Colors.Red): the
\* process ends and its daemon threads with it
main_after_connect ==
    /\ pc = "returned"
    /\ pc' = IF result = "true" THEN "session"
             ELSE IF result = "false" THEN "menu"
             ELSE "exited"
    /\ rx' = IF result \in { "true", "false" } THEN rx
             ELSE [t \in Threads |-> IF rx[t] = "idle" THEN "idle" ELSE "done"]
    /\ args' = NoArgs
    /\ idx' = 1
    /\ caller' = "m3"
    /\ calls' = << >>
    /\ directOk' = FALSE
    /\ result' = "none"
    /\ regIds' = << >>
    /\ contacted' = << >>
    /\ lastResp' = NoResponse
    /\ markedAt' = 0
    /\ rcResult' = "none"
    /\ wait' = "answer"
    /\ UNCHANGED << sockVars, ncalls, running, rxDead, lines, sent, lastEnd,
                    peerExit >>
    /\ UNCHANGED notChat

\* main(): choice 5; the daemon receive threads die with the process
main_exit ==
    /\ pc = "menu"
    /\ pc' = "exited"
    /\ rx' = [t \in Threads |-> IF rx[t] = "idle" THEN "idle" ELSE "done"]
    /\ UNCHANGED << sockVars, callVars, connHist, relayHist, running, rxDead, lines,
                    sent, lastEnd, peerExit >>
    /\ UNCHANGED notChat

\* ------------------------------------------------------- smart_connect
\* what a failing network operation raises: connect() refused or timed out,
\* bind() on a port in use, accept()/send()/recv() on a broken or timed-out
\* socket, a failing UPnP request; all are subclasses of Exception
NetworkErrors == { "ConnectionRefusedError", "socket.timeout", "OSError" }

\* an except clause that handles timeouts only
CatchesTimeoutOnly(clause, e) == e = "socket.timeout"

\* the except clauses of the connection methods: `except Exception` handles the
\* subclasses of Exception, the bare `except:` handles everything
Catches(clause, e) ==
    \/ clause = "bare"
    \/ clause = "Exception" /\ e \in NetworkErrors

\* method 1 without its `return True`: a successful direct connect falls
\* through to the later methods
smart_connect_method1_noreturn(ok) ==
    /\ pc = "m1"
    /\ IF args.target_ip # "none" /\ ~args.is_host
       THEN /\ calls' = Append(calls, "start_direct_client")
            /\ peer_socket' = IF ok THEN [NewSock EXCEPT !.conn = "conn", !.est = ncalls]
                                    ELSE NewSock
            /\ directOk' = ok
       ELSE /\ ~ok
            /\ UNCHANGED << peer_socket, calls, directOk >>
    /\ pc' = "m2"
    /\ UNCHANGED << socket, callVars, result, regIds, relayHist, sessVars >>
    /\ UNCHANGED notChat

\* Method 1: start_direct_client(target_ip); ok is whether connect() succeeds
smart_connect_method1(ok) ==
    /\ pc = "m1"
    /\ IF args.target_ip # "none" /\ ~args.is_host
       THEN /\ calls' = Append(calls, "start_direct_client")
            /\ IF ok
               THEN /\ peer_socket' = [NewSock EXCEPT !.conn = "conn", !.est = ncalls]
                    /\ directOk' = TRUE
                    /\ result' = "true"
                    /\ pc' = "returned"
               ELSE /\ peer_socket' = NewSock
                    /\ \E e \in NetworkErrors :
                          IF Catches("Exception", e)
                          THEN pc' = "m2" /\ UNCHANGED result
                          ELSE pc' = "returned" /\ result' = e
                    /\ UNCHANGED directOk
       ELSE /\ ~ok
            /\ pc' = "m2"
            /\ UNCHANGED << peer_socket, calls, directOk, result >>
    /\ UNCHANGED << socket, callVars, regIds, relayHist, sessVars >>
    /\ UNCHANGED notChat

\* method 2 with a port mapping that must succeed: its failure ends the call
smart_connect_method2_fatal(ok) ==
    /\ pc = "m2"
    /\ IF args.is_host
       THEN /\ calls' = Append(calls, "try_upnp_port_forward")
            /\ pc' = IF ok THEN "host_bind" ELSE "returned"
            /\ result' = IF ok THEN result ELSE "false"
       ELSE /\ ~ok
            /\ pc' = "m3"
            /\ UNCHANGED << calls, result >>
    /\ UNCHANGED << sockVars, callVars, directOk, regIds, relayHist, sessVars >>
    /\ UNCHANGED notChat

\* Method 2: try_upnp_port_forward(); ok is whether the mapping was added
smart_connect_method2(ok) ==
    /\ pc = "m2"
    /\ IF args.is_host
       THEN /\ calls' = Append(calls, "try_upnp_port_forward")
            /\ IF ok
               THEN pc' = "host_bind" /\ UNCHANGED result
               ELSE \E e \in NetworkErrors :
                       IF Catches("Exception", e)
                       THEN pc' = "m3" /\ UNCHANGED result
                       ELSE pc' = "returned" /\ result' = e
       ELSE /\ ~ok
            /\ pc' = "m3"
            /\ UNCHANGED << calls, result >>
    /\ UNCHANGED << sockVars, callVars, directOk, regIds, relayHist, sessVars >>
    /\ UNCHANGED notChat

\* start_direct_host up to listen(); ok is whether bind() succeeds, w whether
\* a peer will ever connect
start_direct_host_listen(ok, w) ==
    /\ pc = "host_bind"
    /\ calls' = Append(calls, "start_direct_host")
    /\ IF ok
       THEN /\ socket' = [NewSock EXCEPT !.conn = "listen"]
            /\ wait' = w
            /\ pc' = "host_accept"
            /\ UNCHANGED result
       ELSE /\ socket' = NewSock
            /\ w = "answer"
            /\ wait' = w
            /\ \E e \in NetworkErrors :
                  IF Catches("Exception", e)
                  THEN pc' = "m3" /\ UNCHANGED result
                  ELSE pc' = "returned" /\ result' = e
    /\ UNCHANGED << peer_socket, args, idx, caller, ncalls, directOk, regIds,
                    relayHist, sessVars >>
    /\ UNCHANGED notChat

\* a receive thread of an earlier session that is inside receive_message on
\* self.socket has set its 0.5 s timeout on the socket
TimeoutLeaked ==
    /\ ~Truthy(peer_socket)
    /\ \E t \in Threads : rx[t] = "recv"

\* start_direct_host: accept() has no timeout of its own: it returns when a
\* peer connects (ok), raises when the wait is broken off by an error, and
\* can time out only on a timeout that a receive thread has left on the socket
start_direct_host_accept(ok) ==
    /\ pc = "host_accept"
    /\ wait = "answer" \/ (~ok /\ TimeoutLeaked)
    /\ IF ok
       THEN /\ peer_socket' = [NewSock EXCEPT !.conn = "conn", !.est = ncalls]
            /\ result' = "true"
            /\ pc' = "returned"
       ELSE /\ \E e \in NetworkErrors :
                  IF Catches("Exception", e)
                  THEN pc' = "m3" /\ UNCHANGED result
                  ELSE pc' = "returned" /\ result' = e
            /\ UNCHANGED peer_socket
    /\ UNCHANGED << socket, callVars, calls, directOk, regIds, relayHist, sessVars >>
    /\ UNCHANGED notChat

\* the steps of start_direct_host once it is listening
start_direct_host_step == \E ok \in BOOLEAN : start_direct_host_accept(ok)

\* the operator presses Ctrl+C while start_direct_host is blocked in accept(),
\* inside `try ... except Exception`: KeyboardInterrupt is not an Exception
\* and leaves smart_connect.  (In connect_to_relay the bare `except: continue`
\* keeps it in: nothing leaves smart_connect there.)
smart_connect_interrupt ==
    /\ pc = "host_accept"
    /\ IF Catches("Exception", "KeyboardInterrupt")
       THEN pc' = "m3" /\ UNCHANGED result
       ELSE pc' = "returned" /\ result' = "KeyboardInterrupt"
    /\ UNCHANGED << sockVars, callVars, calls, directOk, regIds, relayHist, sessVars >>
    /\ UNCHANGED notChat

\* Method 3: connect_to_relay(room_id, is_host) when a room id was given
smart_connect_method3 ==
    /\ pc = "m3"
    /\ IF args.room_id # "none"
       THEN /\ calls' = Append(calls, "connect_to_relay")
            /\ regIds' = Append(regIds, args.room_id)
            /\ caller' = "m3"
            /\ idx' = 1
            /\ contacted' = << >>
            /\ lastResp' = NoResponse
            /\ markedAt' = 0
            /\ rcResult' = "none"
            /\ pc' = "rc_loop"
       ELSE /\ pc' = "m4"
            /\ UNCHANGED << calls, regIds, caller, idx, relayHist >>
    /\ UNCHANGED << sockVars, args, wait, ncalls, directOk, result, sessVars >>
    /\ UNCHANGED notChat

\* Method 4 without its `if is_host:`: a room id is generated for a guest too
smart_connect_method4_any ==
    /\ pc = "m4"
    /\ args' = [args EXCEPT !.room_id = "GEN"]
    /\ calls' = calls \o << "generate_room_id", "connect_to_relay" >>
    /\ regIds' = Append(regIds, "GEN")
    /\ caller' = "m4"
    /\ idx' = 1
    /\ contacted' = << >>
    /\ lastResp' = NoResponse
    /\ markedAt' = 0
    /\ rcResult' = "none"
    /\ pc' = "rc_loop"
    /\ UNCHANGED result
    /\ UNCHANGED << sockVars, wait, ncalls, directOk, sessVars >>
    /\ UNCHANGED notChat

\* Method 4: when hosting, generate a room id and register with it
smart_connect_method4 ==
    /\ pc = "m4"
    /\ IF args.is_host
       THEN /\ args' = [args EXCEPT !.room_id = "GEN"]
            /\ calls' = calls \o << "generate_room_id", "connect_to_relay" >>
            /\ regIds' = Append(regIds, "GEN")
            /\ caller' = "m4"
            /\ idx' = 1
            /\ contacted' = << >>
            /\ lastResp' = NoResponse
            /\ markedAt' = 0
            /\ rcResult' = "none"
            /\ pc' = "rc_loop"
            /\ UNCHANGED result
       ELSE /\ result' = "false"
            /\ pc' = "returned"
            /\ UNCHANGED << args, calls, regIds, caller, idx, relayHist >>
    /\ UNCHANGED << sockVars, wait, ncalls, directOk, sessVars >>
    /\ UNCHANGED notChat

\* ---------------------------------------------------- connect_to_relay
\* one pass of the for loop up to send(): o is "refused" (connect raises),
\* "senderr" (send raises) or "sent"; w is whether the relay will ever answer
connect_to_relay_try(o, w) ==
    /\ pc = "rc_loop"
    /\ idx <= NumRelays
    /\ contacted' = Append(contacted, idx)
    /\ IF o = "sent"
       THEN /\ socket' = [NewSock EXCEPT !.conn = "conn"]
            /\ wait' = w
            /\ pc' = "rc_recv"
            /\ UNCHANGED << idx, result >>
       ELSE /\ socket' = IF o = "refused" THEN NewSock
                                          ELSE [NewSock EXCEPT !.conn = "reset"]
            /\ w = "answer"
            /\ wait' = w
            /\ \E e \in NetworkErrors :
                  IF Catches("bare", e)
                  THEN pc' = "rc_loop" /\ idx' = idx + 1 /\ UNCHANGED result
                  ELSE pc' = "returned" /\ result' = e /\ UNCHANGED idx
    /\ UNCHANGED << peer_socket, args, caller, ncalls, calls, directOk, regIds,
                    lastResp, markedAt, rcResult, sessVars >>
    /\ UNCHANGED notChat

\* the relay answers the registration envelope once: with a text, by closing
\* the stream (the empty text), or the connection is reset (~got)
relay_respond(r) ==
    /\ pc = "rc_recv"
    /\ wait = "answer"
    /\ IsLive(socket)
    /\ wait' = "answered"
    /\ socket' = IF ~r.got THEN [socket EXCEPT !.conn = "reset"]
                 ELSE IF r.text = Str_empty THEN [socket EXCEPT !.conn = "eof"]
                 ELSE [socket EXCEPT !.buf = << r.text >>]
    /\ markedAt' = IF markedAt = 0 /\ r.got /\ r.text \in TextsWithMarker
                   THEN idx ELSE markedAt
    /\ UNCHANGED << pc, peer_socket, args, idx, caller, ncalls, connHist, contacted,
                    lastResp, rcResult, sessVars >>
    /\ UNCHANGED notChat

\* recv(1024) and the handling of the response.  settimeout(None) precedes the
\* recv: it returns only when something has arrived (o = "data"), unless a
\* receive thread has set a timeout on the socket meanwhile (o = "timeout").
connect_to_relay_recv(o) ==
    /\ pc = "rc_recv"
    /\ \E r \in Recv(socket) :
          /\ IF o = "data" THEN ~r.blocked ELSE r.blocked /\ TimeoutLeaked
          /\ LET raised == r.blocked \/ (r.dead /\ socket.conn # "eof")
                 response == IF r.data = << >> THEN Str_empty ELSE Head(r.data)
             IN /\ lastResp' = [got |-> ~raised, text |-> response]
                /\ IF ~raised /\ In(Str_success, response)
                   THEN /\ socket' = [r.after EXCEPT !.est = ncalls]
                        /\ rcResult' = "true"
                        /\ result' = "true"
                        /\ pc' = "returned"
                        /\ UNCHANGED idx
                   ELSE /\ socket' = IF raised THEN r.after ELSE Close(r.after)
                        /\ \E e \in NetworkErrors :
                              IF raised => Catches("bare", e)
                              THEN /\ pc' = "rc_loop"
                                   /\ idx' = idx + 1
                                   /\ UNCHANGED result
                              ELSE /\ pc' = "returned"
                                   /\ result' = e
                                   /\ UNCHANGED idx
                        /\ UNCHANGED rcResult
    /\ UNCHANGED << peer_socket, args, caller, wait, ncalls, calls, directOk, regIds,
                    contacted, markedAt, sessVars >>
    /\ UNCHANGED notChat

\* the for loop is exhausted: connect_to_relay returns False to smart_connect,
\* which goes on to method 4 or returns False
connect_to_relay_exhausted ==
    /\ pc = "rc_loop"
    /\ idx > NumRelays
    /\ rcResult' = "false"
    /\ IF caller = "m3"
       THEN /\ pc' = "m4"
            /\ UNCHANGED result
       ELSE /\ result' = "false"
            /\ pc' = "returned"
    /\ UNCHANGED << sockVars, callVars, calls, directOk, regIds, contacted, lastResp,
                    markedAt, sessVars >>
    /\ UNCHANGED notChat

\* the steps of connect_to_relay
connect_to_relay_step ==
    \/ \E o \in { "refused", "senderr", "sent" }, w \in { "answer", "silent" } :
          connect_to_relay_try(o, w)
    \/ \E o \in { "data", "timeout" } : connect_to_relay_recv(o)
    \/ connect_to_relay_exhausted

\* ------------------------------------------------------- chat session
\* the socket send_message and receive_message use: peer_socket if set,
\* else socket
TransportName ==
    IF Truthy(peer_socket) THEN "peer_socket"
    ELSE IF Truthy(socket) THEN "socket"
    ELSE "none"

Transport ==
    IF Truthy(peer_socket) THEN peer_socket
    ELSE IF Truthy(socket) THEN socket
    ELSE NoSock

SetTransport(s) ==
    IF Truthy(peer_socket) THEN peer_socket' = s /\ UNCHANGED socket
    ELSE IF Truthy(socket) THEN socket' = s /\ UNCHANGED peer_socket
    ELSE UNCHANGED << socket, peer_socket >>

\* the socket established by the smart_connect call that started the session
SessionSock == IF peer_socket.est = ncalls THEN peer_socket ELSE socket

SetSessionSock(s) ==
    IF peer_socket.est = ncalls THEN peer_socket' = s /\ UNCHANGED socket
    ELSE socket' = s /\ UNCHANGED peer_socket

\* send_message(message) with result ok
send_message(message, ok) ==
    /\ IF TransportName = "none" THEN ok = TRUE ELSE ok \in SendOutcomes(Transport)
    /\ sent' = IF ok /\ TransportName # "none"
               THEN Append(sent, [via |-> TransportName, frame |-> message])
               ELSE sent

\* receive_message(timeout): the possible results.  msg is the text returned
\* (<< >> for None: a timeout, b"" and an exception all return None).  The
\* frames of InFrames are not JSON: read from self.socket they are returned
\* as they are (receive_message_relay).
receive_message ==
    IF TransportName = "none"
    THEN { [msg |-> << >>, after |-> NoSock, dead |-> FALSE] }
    ELSE { [msg |-> r.data, after |-> r.after, dead |-> r.dead] : r \in Recv(Transport) }

\* start_chat_session up to receive_thread.start()
start_chat_session ==
    /\ pc = "session"
    /\ running' = TRUE
    /\ rx' = [rx EXCEPT ![ncalls] = "head"]
    /\ lines' = 0
    /\ sent' = << >>
    /\ lastEnd' = "none"
    /\ pc' = "fg_head"
    /\ UNCHANGED << sockVars, callVars, connHist, relayHist, rxDead, peerExit >>
    /\ UNCHANGED notChat

\* start_chat_session: `while self.running:`
foreground_check ==
    /\ pc = "fg_head"
    /\ IF running
       THEN pc' = "fg_input" /\ UNCHANGED lastEnd
       ELSE pc' = "menu" /\ lastEnd' = "stopped"
    /\ UNCHANGED << sockVars, callVars, connHist, relayHist, running, rx, rxDead,
                    lines, sent, peerExit >>
    /\ UNCHANGED notChat

\* a failed send that makes smart_connect register with the relay again
send_failed_reconnect == "m3"

\* where a failed send of text leaves the program: `break` ends
\* start_chat_session, which returns into the menu loop of main
send_failed_break == "menu"

\* start_chat_session: one line m read by input() and handled; ok is the
\* result of the send_message call made for it, if any
foreground_line(m, ok) ==
    /\ pc = "fg_input"
    /\ IF Lower(m) = "/exit" \/ m = "^C"
       THEN /\ send_message("/exit", ok)
            /\ running' = FALSE
            /\ lastEnd' = IF m = "^C" THEN "interrupt" ELSE "exit"
            /\ pc' = "menu"
            /\ UNCHANGED lines
       ELSE IF Lower(m) \in { "/help", "/clear", "/time", "/status" }
       THEN /\ ok = TRUE
            /\ pc' = "fg_head"
            /\ UNCHANGED << running, lastEnd, lines, sent >>
       ELSE /\ lines < MaxLines
            /\ send_message(m, ok)
            /\ lines' = lines + 1
            /\ IF ok
               THEN pc' = "fg_head" /\ UNCHANGED lastEnd
               ELSE pc' = send_failed_break /\ lastEnd' = "sendfail"
            /\ UNCHANGED running
    /\ UNCHANGED << sockVars, callVars, connHist, relayHist, rx, rxDead, peerExit >>
    /\ UNCHANGED notChat

\* receive_thread_func: `while self.running:`
receive_thread_check(t) ==
    /\ rx[t] = "head"
    /\ rx' = [rx EXCEPT ![t] = IF running THEN "recv" ELSE "done"]
    /\ UNCHANGED << pc, sockVars, callVars, connHist, relayHist, running, rxDead,
                    lines, sent, lastEnd, peerExit >>
    /\ UNCHANGED notChat

\* receive_thread_func: receive_message(0.5) and the handling of its result
receive_thread_poll(t) ==
    /\ rx[t] = "recv"
    /\ \E r \in receive_message :
          /\ SetTransport(r.after)
          /\ rxDead' = IF r.dead THEN rxDead \cup { t } ELSE rxDead
          /\ IF r.msg = << "/exit" >>
             THEN /\ running' = FALSE
                  /\ rx' = [rx EXCEPT ![t] = "done"]
             ELSE /\ rx' = [rx EXCEPT ![t] = "head"]
                  /\ UNCHANGED running
    /\ UNCHANGED << pc, callVars, connHist, relayHist, lines, sent, lastEnd,
                    peerExit >>
    /\ UNCHANGED notChat

\* ----------------------------------------------------------- the peer
\* the remote end of the session's connection writes a frame; "/exit" is the
\* last frame a peer writes
peer_send(f) ==
    /\ pc \in { "fg_head", "fg_input" }
    /\ ~peerExit
    /\ IsLive(SessionSock)
    /\ Len(SessionSock.buf) < MaxBuf
    /\ SetSessionSock([SessionSock EXCEPT !.buf = Append(@, f)])
    /\ peerExit' = (f = "/exit")
    /\ UNCHANGED << pc, callVars, connHist, relayHist, running, rx, rxDead, lines,
                    sent, lastEnd >>
    /\ UNCHANGED notChat

\* the remote end closes the session's connection (c = "eof") or the
\* connection is reset (c = "reset")
peer_lost(c) ==
    /\ pc \in { "fg_head", "fg_input" }
    /\ IsLive(SessionSock)
    /\ SetSessionSock([SessionSock EXCEPT !.conn = c,
                                         !.buf = IF c = "reset" THEN << >> ELSE @])
    /\ UNCHANGED << pc, callVars, connHist, relayHist, sessVars >>
    /\ UNCHANGED notChat

NextChat ==
    \/ \E a \in CallSites : main_connect(a)
    \/ main_after_connect
    \/ main_exit
    \/ \E ok \in BOOLEAN : smart_connect_method1(ok)
    \/ \E ok \in BOOLEAN : smart_connect_method2(ok)
    \/ \E ok \in BOOLEAN, w \in { "answer", "silent" } : start_direct_host_listen(ok, w)
    \/ \E ok \in BOOLEAN : start_direct_host_accept(ok)
    \/ smart_connect_interrupt
    \/ smart_connect_method3
    \/ smart_connect_method4
    \/ \E o \in { "refused", "senderr", "sent" }, w \in { "answer", "silent" } :
          connect_to_relay_try(o, w)
    \/ \E t \in Responses, g \in BOOLEAN :
          relay_respond([got |-> g, text |-> IF g THEN t ELSE Str_empty])
    \/ \E o \in { "data", "timeout" } : connect_to_relay_recv(o)
    \/ connect_to_relay_exhausted
    \/ start_chat_session
    \/ foreground_check
    \/ \E m \in Inputs, ok \in BOOLEAN : foreground_line(m, ok)
    \/ \E t \in Threads : receive_thread_check(t)
    \/ \E t \in Threads : receive_thread_poll(t)
    \/ \E f \in InFrames : peer_send(f)
    \/ \E c \in { "eof", "reset" } : peer_lost(c)

Next == NextChat

Spec == Init /\ [][Next]_vars

\* ===================================================== KomoChat.py
\* lines the operator may type in chat_session; "^D" is end of input
KcInputs == Inputs \cup { "/emoji", "^D" }

\* start_sender: socket(), connect() and, on success, chat_session up to
\* receive_thread.start(); on failure the except clauses and the finally
\* clause, which closes client_socket
start_sender(ok) ==
    /\ kc_pc = "menu"
    /\ kc_calls < MaxCalls
    /\ kc_calls' = kc_calls + 1
    /\ kc_role' = "sender"
    /\ kc_lines' = 0
    /\ kc_sent' = << >>
    /\ kc_end' = "none"
    /\ kc_after' = 0
    /\ kc_last' = "none"
    /\ IF ok
       THEN /\ client_socket' = [client_socket EXCEPT ![kc_calls + 1] =
                                    [NewSock EXCEPT !.conn = "conn", !.est = kc_calls + 1]]
            /\ kc_rx' = [kc_rx EXCEPT ![kc_calls + 1] = "recv"]
            /\ kc_pc' = "input"
       ELSE /\ client_socket' = [client_socket EXCEPT ![kc_calls + 1] = Close(NewSock)]
            /\ kc_pc' = "menu"
            /\ UNCHANGED kc_rx
    /\ UNCHANGED << server_socket, kc_rxEnd, kc_peerExit >>
    /\ UNCHANGED notDirect

\* start_receiver up to accept(): socket(), bind(), listen(); when bind fails
\* the except clause and the finally clause, which closes server_socket
start_receiver_listen(ok) ==
    /\ kc_pc = "menu"
    /\ kc_calls < MaxCalls
    /\ kc_calls' = kc_calls + 1
    /\ kc_role' = "receiver"
    /\ kc_lines' = 0
    /\ kc_sent' = << >>
    /\ kc_end' = "none"
    /\ kc_after' = 0
    /\ kc_last' = "none"
    /\ IF ok
       THEN /\ server_socket' = [NewSock EXCEPT !.conn = "listen"]
            /\ kc_pc' = "accept"
       ELSE /\ server_socket' = Close(NewSock)
            /\ kc_pc' = "menu"
    /\ UNCHANGED << client_socket, kc_rx, kc_rxEnd, kc_peerExit >>
    /\ UNCHANGED notDirect

\* start_receiver: accept() returns a connection ("peer"), or raises
\* socket.timeout after an hour or KeyboardInterrupt; on "peer" chat_session
\* up to receive_thread.start(), else the finally clause
start_receiver_accept(o) ==
    /\ kc_pc = "accept"
    /\ IF o = "peer"
       THEN /\ client_socket' = [client_socket EXCEPT ![kc_calls] =
                                    [NewSock EXCEPT !.conn = "conn", !.est = kc_calls]]
            /\ kc_rx' = [kc_rx EXCEPT ![kc_calls] = "recv"]
            /\ kc_pc' = "input"
            /\ UNCHANGED server_socket
       ELSE /\ server_socket' = Close(server_socket)
            /\ kc_pc' = "menu"
            /\ UNCHANGED << client_socket, kc_rx >>
    /\ UNCHANGED << kc_role, kc_calls, kc_rxEnd, kc_peerExit, kc_lines, kc_sent,
                    kc_end, kc_after,
                    kc_last >>
    /\ UNCHANGED notDirect

\* the KeyboardInterrupt handler without the try/except around its send
EndOfExitUnguarded(m, ok) ==
    IF ~ok THEN "raised" ELSE IF m = "^C" THEN "interrupt" ELSE "exit"

\* how chat_session ends on "/exit" and on Ctrl+C, ok being the result of
\* sock.send(b"/exit"): the send of the "/exit" branch is outside the inner
\* try, so its exception leaves chat_session ("raised") and is reported by the
\* caller's `except Exception`; the send of the KeyboardInterrupt handler is
\* inside `try ... except: pass`
EndOfExit(m, ok) ==
    IF m = "^C" THEN "interrupt" ELSE IF ok THEN "exit" ELSE "raised"

\* chat_session whose '/exit' branch has `continue` in place of `break`
chat_session_line_exit_continues(m, ok) ==
    /\ kc_pc = "input"
    /\ kc_after' = IF kc_rxEnd[kc_calls] = "exit" /\ kc_after < MaxAfter
                   THEN kc_after + 1 ELSE kc_after
    /\ kc_last' = IF m \in DisplayLines THEN m ELSE "none"
    /\ IF Lower(m) = "/exit" \/ m = "^C"
       THEN /\ ok \in SendOutcomes(client_socket[kc_calls])
            /\ kc_sent' = IF ok THEN Append(kc_sent, "/exit") ELSE kc_sent
            /\ kc_end' = EndOfExit(m, ok)
            /\ kc_pc' = IF m = "^C" \/ ~ok THEN "finally" ELSE "input"
            /\ UNCHANGED kc_lines
       ELSE IF m = "^D"
       THEN /\ ok = TRUE
            /\ kc_end' = "eof"
            /\ kc_pc' = "finally"
            /\ UNCHANGED << kc_sent, kc_lines >>
       ELSE IF Lower(m) \in { "/clear", "/help", "/time", "/emoji", "/status" }
       THEN /\ ok = TRUE
            /\ UNCHANGED << kc_pc, kc_sent, kc_end, kc_lines >>
       ELSE /\ kc_lines < MaxLines
            /\ ok \in SendOutcomes(client_socket[kc_calls])
            /\ kc_lines' = kc_lines + 1
            /\ IF ok
               THEN /\ kc_sent' = Append(kc_sent, m)
                    /\ UNCHANGED << kc_pc, kc_end >>
               ELSE /\ kc_end' = "sendfail"
                    /\ kc_pc' = "finally"
                    /\ UNCHANGED kc_sent
    /\ UNCHANGED << kc_role, kc_calls, server_socket, client_socket, kc_rx, kc_rxEnd,
                    kc_peerExit >>
    /\ UNCHANGED notDirect

\* chat_session: one pass of `while True`: the line m read by input() and its
\* handling; ok is the result of the sock.send made for it, if any.  The loop
\* has no condition: it ends on "/exit", a failed send, Ctrl+C or end of input.
chat_session_line(m, ok) ==
    /\ kc_pc = "input"
    /\ kc_after' = IF kc_rxEnd[kc_calls] = "exit" /\ kc_after < MaxAfter
                   THEN kc_after + 1 ELSE kc_after
    /\ kc_last' = IF m \in DisplayLines THEN m ELSE "none"
    /\ IF Lower(m) = "/exit" \/ m = "^C"
       THEN /\ ok \in SendOutcomes(client_socket[kc_calls])
            /\ kc_sent' = IF ok THEN Append(kc_sent, "/exit") ELSE kc_sent
            /\ kc_end' = EndOfExit(m, ok)
            /\ kc_pc' = "finally"
            /\ UNCHANGED kc_lines
       ELSE IF m = "^D"
       THEN /\ ok = TRUE
            /\ kc_end' = "eof"
            /\ kc_pc' = "finally"
            /\ UNCHANGED << kc_sent, kc_lines >>
       ELSE IF Lower(m) \in { "/clear", "/help", "/time", "/emoji", "/status" }
       THEN /\ ok = TRUE
            /\ UNCHANGED << kc_pc, kc_sent, kc_end, kc_lines >>
       ELSE /\ kc_lines < MaxLines
            /\ ok \in SendOutcomes(client_socket[kc_calls])
            /\ kc_lines' = kc_lines + 1
            /\ IF ok
               THEN /\ kc_sent' = Append(kc_sent, m)
                    /\ UNCHANGED << kc_pc, kc_end >>
               ELSE /\ kc_end' = "sendfail"
                    /\ kc_pc' = "finally"
                    /\ UNCHANGED kc_sent
    /\ UNCHANGED << kc_role, kc_calls, server_socket, client_socket, kc_rx, kc_rxEnd,
                    kc_peerExit >>
    /\ UNCHANGED notDirect

\* the finally clause after chat_session: start_sender closes client_socket,
\* start_receiver closes server_socket only and drops its reference to
\* client_socket, which the receive thread still holds while it runs.  A recv
\* in progress on a descriptor that is closed under it may fail at once
\* (wake) or stay blocked.
start_finally(wake) ==
    /\ kc_pc = "finally"
    /\ kc_pc' = "menu"
    /\ IF kc_role = "sender"
       THEN /\ client_socket' = [client_socket EXCEPT ![kc_calls] = Close(@)]
            /\ kc_rx' = IF kc_rx[kc_calls] = "recv" /\ ~wake
                        THEN [kc_rx EXCEPT ![kc_calls] = "blocked"]
                        ELSE kc_rx
            /\ UNCHANGED server_socket
       ELSE /\ wake
            /\ server_socket' = Close(server_socket)
            /\ client_socket' = IF kc_rx[kc_calls] = "done"
                                THEN [client_socket EXCEPT ![kc_calls] = Finalize(@)]
                                ELSE client_socket
            /\ UNCHANGED kc_rx
    /\ UNCHANGED << kc_role, kc_calls, kc_rxEnd, kc_peerExit, kc_lines, kc_sent,
                    kc_end, kc_after,
                    kc_last >>
    /\ UNCHANGED notDirect

\* receive_messages: one pass of `while True`: a blocking sock.recv(1024) that
\* has returned or raised, and its handling
receive_messages(t) ==
    /\ kc_rx[t] = "recv"
    /\ \E r \in Recv(client_socket[t]) :
          /\ ~r.blocked
          /\ LET why == IF r.dead
                        THEN (IF client_socket[t].st # "open" THEN "error"
                              ELSE IF client_socket[t].conn = "eof" THEN "closed"
                              ELSE IF client_socket[t].conn = "reset" THEN "reset"
                              ELSE "error")
                        ELSE IF r.data = << "/exit" >> THEN "exit" ELSE "none"
                 held == kc_calls = t /\ kc_pc \in { "input", "finally" }
             IN /\ kc_rxEnd' = [kc_rxEnd EXCEPT ![t] = why]
                /\ kc_rx' = [kc_rx EXCEPT ![t] = IF why = "none" THEN "recv" ELSE "done"]
                /\ client_socket' = [client_socket EXCEPT ![t] =
                                        IF why # "none" /\ ~held /\ kc_role = "receiver"
                                        THEN Finalize(r.after) ELSE r.after]
    /\ UNCHANGED << kc_pc, kc_role, kc_calls, server_socket, kc_peerExit, kc_lines,
                    kc_sent, kc_end, kc_after,
                    kc_last >>
    /\ UNCHANGED notDirect

\* main(): choice 5; the daemon receive threads die with the process
kc_exit ==
    /\ kc_pc = "menu"
    /\ kc_pc' = "exited"
    /\ kc_rx' = [t \in Threads |-> IF kc_rx[t] = "idle" THEN "idle" ELSE "done"]
    /\ UNCHANGED << kc_role, kc_calls, server_socket, client_socket, kc_rxEnd,
                    kc_peerExit, kc_lines, kc_sent, kc_end, kc_after,
                    kc_last >>
    /\ UNCHANGED notDirect

\* the remote end of connection t writes a frame; "/exit" is its last frame
kc_peer_send(t, f) ==
    /\ kc_pc # "exited"
    /\ ~kc_peerExit[t]
    /\ IsLive(client_socket[t])
    /\ Len(client_socket[t].buf) < MaxBuf
    /\ client_socket' = [client_socket EXCEPT ![t].buf = Append(@, f)]
    /\ kc_peerExit' = [kc_peerExit EXCEPT ![t] = (f = "/exit")]
    /\ UNCHANGED << kc_pc, kc_role, kc_calls, server_socket, kc_rx, kc_rxEnd, kc_lines,
                    kc_sent, kc_end, kc_after,
                    kc_last >>
    /\ UNCHANGED notDirect

\* the remote end closes connection t (c = "eof") or it is reset (c = "reset")
kc_peer_lost(t, c) ==
    /\ kc_pc # "exited"
    /\ IsLive(client_socket[t])
    /\ client_socket' = [client_socket EXCEPT ![t].conn = c,
                                              ![t].buf = IF c = "reset" THEN << >> ELSE @]
    /\ UNCHANGED << kc_pc, kc_role, kc_calls, server_socket, kc_rx, kc_rxEnd, kc_peerExit,
                    kc_lines, kc_sent, kc_end, kc_after,
                    kc_last >>
    /\ UNCHANGED notDirect

NextDirect ==
    \/ \E ok \in BOOLEAN : start_sender(ok)
    \/ \E ok \in BOOLEAN : start_receiver_listen(ok)
    \/ \E o \in { "peer", "timeout", "interrupt" } : start_receiver_accept(o)
    \/ \E m \in KcInputs, ok \in BOOLEAN : chat_session_line(m, ok)
    \/ \E wake \in BOOLEAN : start_finally(wake)
    \/ \E t \in Threads : receive_messages(t)
    \/ kc_exit
    \/ \E t \in Threads, f \in InFrames : kc_peer_send(t, f)
    \/ \E t \in Threads, c \in { "eof", "reset" } : kc_peer_lost(t, c)

SpecDirect == Init /\ [][NextDirect]_vars

\* ===================================================== either program
\* a process runs Chat.py or KomoChat.py, not both
NextEither ==
    \/ InitDirect /\ NextChat
    \/ InitChat /\ NextDirect

SpecEither == Init /\ [][NextEither]_vars

\* ===================================================== receive_message
\* receive_thread_func: `while self.running:` and the start of
\* receive_message(0.5); inp is what the recv of this call will do
receive_thread_func_head(inp) ==
    /\ rm_pc \in { "idle", "head" }
    /\ rm_pc = "head" => rm_running
    /\ rm_running' = TRUE
    /\ rm_in' = inp
    /\ rm_pc' = "recv"
    /\ UNCHANGED rm_out
    /\ UNCHANGED notReceive

\* receive_message(0.5) returns
receive_message_return ==
    /\ rm_pc = "recv"
    /\ rm_out' = IF rm_in.via = "peer_socket" THEN receive_message_peer(rm_in)
                 ELSE receive_message_relay(rm_in)
    /\ rm_pc' = "returned"
    /\ UNCHANGED << rm_in, rm_running >>
    /\ UNCHANGED notReceive

\* receive_thread_func: the handling of the returned message
receive_thread_func_handle ==
    /\ rm_pc = "returned"
    /\ rm_running' = IF MessageTruthy(rm_out) /\ MessageIsExit(rm_out)
                     THEN FALSE ELSE rm_running
    /\ rm_pc' = "head"
    /\ UNCHANGED << rm_in, rm_out >>
    /\ UNCHANGED notReceive

NextReceive ==
    \/ \E inp \in RmInputs : receive_thread_func_head(inp)
    \/ receive_message_return
    \/ receive_thread_func_handle

SpecReceive == Init /\ [][NextReceive]_vars

\* ------------------------------------------------------------- hole punching
\* the fixed number of times the guest sends the handshake literal
PunchAttempts == 5

\* datagrams other senders may send to the guest during one negotiation
MaxStrays == 1

HANDSHAKE == "handshake"

ACK == "ack"

HostIP == "host"

GuestIP == "guest"

\* what reaches the guest's socket from elsewhere: any payload from another
\* address, and from the peer's address a payload that is not the
\* acknowledgment
Strays == { Datagram("other", ACK), Datagram("other", "text"),
            Datagram(HostIP, "text") }

\* guest: binds its socket, INIT -> PUNCHING
guest_bind ==
    /\ hp_guest = "INIT"
    /\ hp_guest' = "PUNCHING"
    /\ UNCHANGED << hp_host, attemptsSent, hp_toHost, hp_toGuest, hp_peer, hp_acks,
                    hp_lost, hp_strays, hp_hostGot, hp_guestGot >>
    /\ UNCHANGED notPunch

\* guest: one send of the handshake literal to the candidate address
guest_send ==
    /\ hp_guest = "PUNCHING"
    /\ attemptsSent < PunchAttempts
    /\ attemptsSent' = attemptsSent + 1
    /\ hp_toHost' = hp_toHost + 1
    /\ UNCHANGED << hp_host, hp_guest, hp_toGuest, hp_peer, hp_acks, hp_lost,
                    hp_strays, hp_hostGot, hp_guestGot >>
    /\ UNCHANGED notPunch

\* guest: the budget is spent, PUNCHING -> WAIT_ACK
guest_wait ==
    /\ hp_guest = "PUNCHING"
    /\ attemptsSent = PunchAttempts
    /\ hp_guest' = "WAIT_ACK"
    /\ UNCHANGED << hp_host, attemptsSent, hp_toHost, hp_toGuest, hp_peer, hp_acks,
                    hp_lost, hp_strays, hp_hostGot, hp_guestGot >>
    /\ UNCHANGED notPunch

\* the guest accepts any acknowledgment, whoever sent it
AcceptedAnySender(d) == d.payload = ACK

\* a well-formed acknowledgment from the expected peer IP
Accepted(d) == d.payload = ACK /\ d.from = HostIP

\* guest: the one inbound datagram it blocks for
guest_recv ==
    /\ hp_guest = "WAIT_ACK"
    /\ \E d \in hp_toGuest :
          /\ hp_toGuest' = hp_toGuest \ {d}
          /\ hp_guestGot' = d
          /\ hp_guest' = IF Accepted(d) THEN "CONFIRMED" ELSE "FAILED"
    /\ UNCHANGED << hp_host, attemptsSent, hp_toHost, hp_peer, hp_acks, hp_lost,
                    hp_strays, hp_hostGot >>
    /\ UNCHANGED notPunch

\* guest: the acknowledgment wait expires
guest_timeout ==
    /\ hp_guest = "WAIT_ACK"
    /\ hp_toGuest = {}
    /\ hp_host # "PEER_SEEN"
    /\ ~(hp_host = "LISTENING" /\ hp_toHost > 0)
    /\ hp_guest' = "FAILED"
    /\ hp_guestGot' = TimedOut
    /\ UNCHANGED << hp_host, attemptsSent, hp_toHost, hp_toGuest, hp_peer, hp_acks,
                    hp_lost, hp_strays, hp_hostGot >>
    /\ UNCHANGED notPunch

\* host: the one inbound datagram it blocks for is the handshake literal; its
\* sender becomes the peer candidate, LISTENING -> PEER_SEEN
host_recv ==
    /\ hp_host = "LISTENING"
    /\ hp_toHost > 0
    /\ hp_toHost' = hp_toHost - 1
    /\ hp_hostGot' = hp_hostGot + 1
    /\ hp_peer' = GuestIP
    /\ hp_host' = "PEER_SEEN"
    /\ UNCHANGED << hp_guest, attemptsSent, hp_toGuest, hp_acks, hp_lost, hp_strays,
                    hp_guestGot >>
    /\ UNCHANGED notPunch

\* the host confirms without replying
host_ack_silent ==
    /\ hp_host = "PEER_SEEN"
    /\ hp_host' = "CONFIRMED"
    /\ UNCHANGED << hp_guest, attemptsSent, hp_toHost, hp_toGuest, hp_acks, hp_peer,
                    hp_lost, hp_strays, hp_hostGot, hp_guestGot >>
    /\ UNCHANGED notPunch

\* host: replies with the acknowledgment literal to the peer candidate,
\* PEER_SEEN -> CONFIRMED
host_ack ==
    /\ hp_host = "PEER_SEEN"
    /\ hp_toGuest' = hp_toGuest \cup {Datagram(HostIP, ACK)}
    /\ hp_acks' = hp_acks + 1
    /\ hp_host' = "CONFIRMED"
    /\ UNCHANGED << hp_guest, attemptsSent, hp_toHost, hp_peer, hp_lost, hp_strays,
                    hp_hostGot, hp_guestGot >>
    /\ UNCHANGED notPunch

\* the host's wait has no bound
host_timeout_never ==
    /\ FALSE
    /\ UNCHANGED vars

\* host: the wait expires, terminal failure
host_timeout ==
    /\ hp_host = "LISTENING"
    /\ hp_toHost = 0
    /\ hp_guest \notin {"INIT", "PUNCHING"}
    /\ hp_host' = "FAILED"
    /\ UNCHANGED << hp_guest, attemptsSent, hp_toHost, hp_toGuest, hp_peer, hp_acks,
                    hp_lost, hp_strays, hp_hostGot, hp_guestGot >>
    /\ UNCHANGED notPunch

\* the network drops a handshake datagram (a NAT that does not let it in)
net_drop_to_host ==
    /\ hp_toHost > 0
    /\ hp_toHost' = hp_toHost - 1
    /\ hp_lost' = hp_lost + 1
    /\ UNCHANGED << hp_host, hp_guest, attemptsSent, hp_toGuest, hp_peer, hp_acks,
                    hp_strays, hp_hostGot, hp_guestGot >>
    /\ UNCHANGED notPunch

\* the network drops a datagram sent to the guest
net_drop_to_guest ==
    /\ \E d \in hp_toGuest : hp_toGuest' = hp_toGuest \ {d}
    /\ hp_lost' = hp_lost + 1
    /\ UNCHANGED << hp_host, hp_guest, attemptsSent, hp_toHost, hp_peer, hp_acks,
                    hp_strays, hp_hostGot, hp_guestGot >>
    /\ UNCHANGED notPunch

\* another sender's datagram reaches the guest's bound socket
net_stray(d) ==
    /\ hp_guest \in {"PUNCHING", "WAIT_ACK"}
    /\ hp_strays < MaxStrays
    /\ d \notin hp_toGuest
    /\ hp_toGuest' = hp_toGuest \cup {d}
    /\ hp_strays' = hp_strays + 1
    /\ UNCHANGED << hp_host, hp_guest, attemptsSent, hp_toHost, hp_peer, hp_acks,
                    hp_lost, hp_hostGot, hp_guestGot >>
    /\ UNCHANGED notPunch

\* the steps of the two negotiators
PunchStep ==
    \/ guest_bind
    \/ guest_send
    \/ guest_wait
    \/ guest_recv
    \/ guest_timeout
    \/ host_recv
    \/ host_ack
    \/ host_timeout

NextPunch ==
    \/ PunchStep
    \/ net_drop_to_host
    \/ net_drop_to_guest
    \/ \E d \in Strays : net_stray(d)

SpecPunch == Init /\ [][NextPunch]_vars

\* ------------------------------------------------------------- discovery
\* the fixed 4-byte constant of the discovery protocol, 0x2112A442
MAGIC_COOKIE == 554869826

\* the bytes of MAGIC_COOKIE in network byte order
CookieBytes ==
    << MAGIC_COOKIE \div 16777216, (MAGIC_COOKIE \div 65536) % 256,
       (MAGIC_COOKIE \div 256) % 256, MAGIC_COOKIE % 256 >>

\* the first two bytes of a success response and of an error response
SUCCESS == << 1, 1 >>

FAILURE == << 1, 17 >>

\* the length of the header, the minimum length of a well-formed response
HeaderLen == 20

\* bitwise exclusive or of two naturals
RECURSIVE Xor(_, _)
Xor(a, b) ==
    IF a = 0 THEN b
    ELSE IF b = 0 THEN a
    ELSE ((a + b) % 2) + (2 * Xor(a \div 2, b \div 2))

\* the byte at a 0-based offset of a packet
ByteAt(data, i) == data[i + 1]

\* the values a byte at the position of cookie byte k takes in the
\* responses tried
ByteValues(k) == {0, 255, k}

\* the lengths of the responses tried
ResponseLengths == {20, 24, 28, 32}

\* a response: marker, length field, cookie, transaction id, then bytes 20-23,
\* 24-25, 26-27 and 28-31, cut to len bytes
DiscoveryResponse(marker, a, p, len) ==
    SubSeq(marker \o << 0, 12 >> \o CookieBytes \o [i \in 1..12 |-> 0]
              \o a \o << 0, 1 >> \o p \o << 0, 0, 0, 0 >>,
           1, len)

DiscoveryResponses ==
    { DiscoveryResponse(m, << a1, a2, a3, a4 >>, << p1, p2 >>, len) :
        m \in {SUCCESS, FAILURE},
        a1 \in ByteValues(CookieBytes[1]), a2 \in ByteValues(CookieBytes[2]),
        a3 \in ByteValues(CookieBytes[3]), a4 \in ByteValues(CookieBytes[4]),
        p1 \in ByteValues(CookieBytes[1]), p2 \in ByteValues(CookieBytes[2]),
        len \in ResponseLengths }

\* minimum 20 bytes, response-type marker matching success
WellFormed(data) == Len(data) >= HeaderLen /\ SubSeq(data, 1, 2) = SUCCESS

\* the packet holds the bytes up to offset 27
HoldsAddress(data) == Len(data) >= 28

\* bytes 20-23 XOR-decoded against the cookie
DecodeAddress(data) == [i \in 1..4 |-> Xor(ByteAt(data, 19 + i), CookieBytes[i])]

\* the low half of the cookie
PortMaskLow == MAGIC_COOKIE % 65536

\* the high half of the cookie
PortMask == MAGIC_COOKIE \div 65536

\* bytes 26-27, in network byte order, XOR-decoded against the cookie's half
DecodePort(data) == Xor(ByteAt(data, 26) * 256 + ByteAt(data, 27), PortMask)

\* the address decoded from the bytes a packet cut short still holds
Truncated(data) ==
    [ok |-> TRUE,
     ip |-> [i \in 1..(IF Len(data) >= 24 THEN 4 ELSE 0) |->
                Xor(ByteAt(data, 19 + i), CookieBytes[i])],
     port |-> 0]

\* resolvePublic: the binding request is sent
discovery_send ==
    /\ rp_pc = "send"
    /\ rp_pc' = "await"
    /\ UNCHANGED << rp_data, rp_out >>
    /\ UNCHANGED notDisc

\* resolvePublic: one response packet arrives within the timeout
discovery_recv(data) ==
    /\ rp_pc = "await"
    /\ rp_data' = data
    /\ rp_pc' = "decode"
    /\ UNCHANGED rp_out
    /\ UNCHANGED notDisc

\* resolvePublic: no response within the timeout, the failure is absorbed
discovery_timeout ==
    /\ rp_pc = "await"
    /\ rp_pc' = "done"
    /\ UNCHANGED << rp_data, rp_out >>
    /\ UNCHANGED notDisc

\* resolvePublic: a well-formed response is decoded at the fixed offsets; a
\* response that is not well-formed fails; reading offsets that a well-formed
\* response does not hold either fails or decodes what is there
discovery_decode ==
    /\ rp_pc = "decode"
    /\ rp_pc' = "done"
    /\ IF ~WellFormed(rp_data)
         THEN rp_out' = NoAddress
         ELSE IF HoldsAddress(rp_data)
           THEN rp_out' = [ok |-> TRUE, ip |-> DecodeAddress(rp_data),
                           port |-> DecodePort(rp_data)]
           ELSE rp_out' \in {NoAddress, Truncated(rp_data)}
    /\ UNCHANGED rp_data
    /\ UNCHANGED notDisc

NextDiscovery ==
    \/ discovery_send
    \/ \E data \in DiscoveryResponses : discovery_recv(data)
    \/ discovery_timeout
    \/ discovery_decode

SpecDiscovery == Init /\ [][NextDiscovery]_vars

\* ------------------------------------------------------------- addresses
\* what a socket call or an HTTP request raises: an OSError (requests'
\* exceptions are subclasses of it), a timeout, or the operator's Ctrl+C
ResolverErrors == NetworkErrors \cup { "KeyboardInterrupt" }

\* the addresses the OS route selection may give the UDP socket
RouteAddresses == { "192.168.1.5", "10.0.0.2" }

\* the bodies of the HTTP responses
Bodies == { "203.0.113.7", "198.51.100.2" }

\* KomoChat.py with its two requests in the other order
SourcesReversed(prog) ==
    IF prog = "Chat" THEN << "https://api.ipify.org" >>
    ELSE << "https://api64.ipify.org", "https://api.ipify.org" >>

\* the URLs get_public_ip requests, in the order of its nested try blocks
Sources(prog) ==
    IF prog = "Chat" THEN << "https://api.ipify.org" >>
    ELSE << "https://api.ipify.org", "https://api64.ipify.org" >>

\* an `except Exception:` in place of the bare `except:`
AbsorbedExceptionOnly(e) == Catches("Exception", e)

\* the bare `except:` of get_local_ip and get_public_ip
Absorbed(e) == Catches("bare", e)

\* display_main_menu / show_network_info: the two calls begin
resolver_start(prog) ==
    /\ ar_pc = "idle"
    /\ ar_prog' = prog
    /\ ar_pc' = "local_socket"
    /\ UNCHANGED << ar_local, ar_public, ar_tried, ar_route, ar_localErr, ar_raised >>
    /\ UNCHANGED notResolver

\* an exception in get_local_ip: `except: return "127.0.0.1"`
get_local_ip_except(e) ==
    IF Absorbed(e)
    THEN /\ ar_local' = Str("127.0.0.1")
         /\ ar_localErr' = e
         /\ ar_pc' = "public"
         /\ UNCHANGED ar_raised
    ELSE /\ ar_raised' = e
         /\ ar_pc' = "raised"
         /\ UNCHANGED << ar_local, ar_localErr >>

\* get_local_ip: socket.socket(AF_INET, SOCK_DGRAM)
get_local_ip_socket(o) ==
    /\ ar_pc = "local_socket"
    /\ IF o = "ok"
       THEN /\ ar_pc' = "local_connect"
            /\ UNCHANGED << ar_local, ar_localErr, ar_raised >>
       ELSE get_local_ip_except(o)
    /\ UNCHANGED << ar_prog, ar_public, ar_tried, ar_route >>
    /\ UNCHANGED notResolver

\* get_local_ip: s.connect(("8.8.8.8", 80)); the OS selects the route and
\* with it the socket's local address
get_local_ip_connect(o) ==
    /\ ar_pc = "local_connect"
    /\ IF o \in RouteAddresses
       THEN /\ ar_route' = o
            /\ ar_pc' = "local_getsockname"
            /\ UNCHANGED << ar_local, ar_localErr, ar_raised >>
       ELSE /\ get_local_ip_except(o)
            /\ UNCHANGED ar_route
    /\ UNCHANGED << ar_prog, ar_public, ar_tried >>
    /\ UNCHANGED notResolver

\* get_local_ip: ip = s.getsockname()[0]; s.close(); return ip
get_local_ip_getsockname(o) ==
    /\ ar_pc = "local_getsockname"
    /\ IF o = "ok"
       THEN /\ ar_local' = Str(ar_route)
            /\ ar_pc' = "public"
            /\ UNCHANGED << ar_localErr, ar_raised >>
       ELSE get_local_ip_except(o)
    /\ UNCHANGED << ar_prog, ar_public, ar_tried, ar_route >>
    /\ UNCHANGED notResolver

\* get_public_ip: one requests.get(url, timeout=..).text; its body is returned
\* as it is; an exception goes on to the next try block, or returns None
\* after the last
get_public_ip_request(o) ==
    /\ ar_pc = "public"
    /\ LET url == Sources(ar_prog)[Len(ar_tried) + 1]
           last == Len(ar_tried) + 1 = Len(Sources(ar_prog))
       IN /\ ar_tried' = Append(ar_tried, [url |-> url, outcome |-> o])
          /\ IF o \in Bodies
             THEN /\ ar_public' = Str(o)
                  /\ ar_pc' = "done"
                  /\ UNCHANGED ar_raised
             ELSE IF Absorbed(o)
             THEN /\ ar_public' = IF last THEN ReturnedNone ELSE ar_public
                  /\ ar_pc' = IF last THEN "done" ELSE "public"
                  /\ UNCHANGED ar_raised
             ELSE /\ ar_raised' = o
                  /\ ar_pc' = "raised"
                  /\ UNCHANGED ar_public
    /\ UNCHANGED << ar_prog, ar_local, ar_route, ar_localErr >>
    /\ UNCHANGED notResolver

NextResolver ==
    \/ \E prog \in {"Chat", "KomoChat"} : resolver_start(prog)
    \/ \E o \in {"ok"} \cup ResolverErrors : get_local_ip_socket(o)
    \/ \E o \in RouteAddresses \cup ResolverErrors : get_local_ip_connect(o)
    \/ \E o \in {"ok"} \cup ResolverErrors : get_local_ip_getsockname(o)
    \/ \E o \in Bodies \cup ResolverErrors : get_public_ip_request(o)

SpecResolver == Init /\ [][NextResolver]_vars

\* ------------------------------------------------------------- room codes
\* the length of the code of the create-room menu and of the code generated
\* inside smart_connect
MenuCodeLen == 6

GeneratedCodeLen == 8

\* characters standing for string.ascii_uppercase + string.digits
UppercaseAndDigits == { "A", "7" }

\* characters standing for string.ascii_letters + string.digits
LettersAndDigits == { "A", "b", "7" }

\* ''.join(random.choices(alphabet, k=n)): every sequence of n characters
Choices(alphabet, n) == [1..n -> alphabet]

\* str.upper() on one character
UpperChar(c) == IF c = "a" THEN "A" ELSE IF c = "b" THEN "B" ELSE c

\* str.upper()
Upper(s) == [i \in 1..Len(s) |-> UpperChar(s[i])]

\* str.strip()
RECURSIVE Strip(_)
Strip(s) ==
    IF s = << >> THEN s
    ELSE IF Head(s) = " " THEN Strip(Tail(s))
    ELSE IF s[Len(s)] = " " THEN Strip(SubSeq(s, 1, Len(s) - 1))
    ELSE s

\* main(), choice 1: the 6-character code is generated, displayed and passed
\* to smart_connect, which registers with it (Method 3)
main_create_room(code) ==
    /\ room_pc = "menu"
    /\ room_hostId' = code
    /\ room_pc' = "shown"
    /\ UNCHANGED << room_typed, room_guestId >>
    /\ UNCHANGED notRoom

\* smart_connect, Method 4: the 8-character code is generated, displayed as
\* "Your Room ID" and registered with
smart_connect_generate(code) ==
    /\ room_pc = "menu"
    /\ room_hostId' = code
    /\ room_pc' = "shown"
    /\ UNCHANGED << room_typed, room_guestId >>
    /\ UNCHANGED notRoom

\* main(), choice 2: the guest types the code as the host sees it; the room_id
\* passed to smart_connect is input(...).strip().upper()
main_join_room ==
    /\ room_pc = "shown"
    /\ room_typed' = room_hostId
    /\ room_guestId' = Upper(Strip(room_hostId))
    /\ room_pc' = "joined"
    /\ UNCHANGED room_hostId
    /\ UNCHANGED notRoom

NextRoom ==
    \/ \E code \in Choices(UppercaseAndDigits, MenuCodeLen) : main_create_room(code)
    \/ \E code \in Choices(LettersAndDigits, GeneratedCodeLen) :
          smart_connect_generate(code)
    \/ main_join_room

SpecRoom == Init /\ [][NextRoom]_vars

\* ------------------------------------------------------------- registration
\* clients a server may already have when the connection arrives
MaxBefore == 2

\* the envelopes connect_to_relay builds: json.dumps of type "connect",
\* room_id, is_host and username
Envelopes ==
    [room_id : { "ROOM", "GEN" }, is_host : BOOLEAN,
     username : { "Anonymous", "success" }]

Str_NICK == << "N", "I", "C", "K" >>

\* str(n) for the client counts that occur
Digit(n) ==
    IF n = 1 THEN "1" ELSE IF n = 2 THEN "2" ELSE IF n = 3 THEN "3" ELSE "4"

\* f"Connected to KomoChat Server!\nUsers online: {len(self.clients)}"
Welcome(n) ==
    << "C", "o", "n", "n", "e", "c", "t", "e", "d", " ", "t", "o", " ",
       "K", "o", "m", "o", "C", "h", "a", "t", " ", "S", "e", "r", "v",
       "e", "r", "!", "\n", "U", "s", "e", "r", "s", " ", "o", "n", "l",
       "i", "n", "e", ":", " " >>
        \o << Digit(n) >>

\* the bytes of several sends read by one recv
RECURSIVE Concat(_)
Concat(texts) ==
    IF texts = << >> THEN << >> ELSE Head(texts) \o Concat(Tail(texts))

\* connect_to_relay: socket(), connect(); before clients are on the server
register_connect(env, before) ==
    /\ rg_client = "idle"
    /\ rg_client' = "connected"
    /\ rg_env' = env
    /\ rg_before' = before
    /\ UNCHANGED << rg_server, rg_toClient, rg_toServer, rg_nickname, rg_response,
                    rg_result >>
    /\ UNCHANGED notRegister

\* connect_to_relay: self.socket.send(json.dumps(connect_msg).encode())
register_send ==
    /\ rg_client = "connected"
    /\ rg_client' = "sent"
    /\ rg_toServer' = Append(rg_toServer, rg_env)
    /\ UNCHANGED << rg_server, rg_env, rg_before, rg_toClient, rg_nickname,
                    rg_response, rg_result >>
    /\ UNCHANGED notRegister

\* connect_to_relay: response = self.socket.recv(1024).decode(), which returns
\* what has arrived, the texts of k sends; `if "success" in response`
register_recv(k) ==
    /\ rg_client = "sent"
    /\ k \in 1..Len(rg_toClient)
    /\ LET response == Concat(SubSeq(rg_toClient, 1, k))
       IN /\ rg_response' = response
          /\ rg_result' = IF In(Str_success, response) THEN "success" ELSE "rejected"
    /\ rg_toClient' = SubSeq(rg_toClient, k + 1, Len(rg_toClient))
    /\ rg_client' = "decided"
    /\ UNCHANGED << rg_server, rg_env, rg_before, rg_toServer, rg_nickname >>
    /\ UNCHANGED notRegister

\* accept_connections: self.server.accept()
server_accept ==
    /\ rg_server = "listening"
    /\ rg_client # "idle"
    /\ rg_server' = "accepted"
    /\ UNCHANGED << rg_client, rg_env, rg_before, rg_toClient, rg_toServer,
                    rg_nickname, rg_response, rg_result >>
    /\ UNCHANGED notRegister

\* accept_connections: client.send("NICK".encode('utf-8'))
server_prompt ==
    /\ rg_server = "accepted"
    /\ rg_toClient' = Append(rg_toClient, Str_NICK)
    /\ rg_server' = "prompted"
    /\ UNCHANGED << rg_client, rg_env, rg_before, rg_toServer, rg_nickname,
                    rg_response, rg_result >>
    /\ UNCHANGED notRegister

\* accept_connections: nickname = client.recv(1024).decode('utf-8'), then the
\* two appends
server_nickname ==
    /\ rg_server = "prompted"
    /\ rg_toServer # << >>
    /\ rg_nickname' = Head(rg_toServer)
    /\ rg_toServer' = Tail(rg_toServer)
    /\ rg_server' = "joined"
    /\ UNCHANGED << rg_client, rg_env, rg_before, rg_toClient, rg_response,
                    rg_result >>
    /\ UNCHANGED notRegister

\* accept_connections: the welcome message, the first text sent after the
\* envelope has been read; it does not reach a client that has closed its
\* socket meanwhile
server_welcome ==
    /\ rg_server = "joined"
    /\ rg_toClient' = IF rg_client = "decided" /\ rg_result = "rejected"
                      THEN rg_toClient
                      ELSE Append(rg_toClient, Welcome(rg_before + 1))
    /\ rg_server' = "welcomed"
    /\ UNCHANGED << rg_client, rg_env, rg_before, rg_toServer, rg_nickname,
                    rg_response, rg_result >>
    /\ UNCHANGED notRegister

NextRegister ==
    \/ \E env \in Envelopes, before \in 0..MaxBefore : register_connect(env, before)
    \/ register_send
    \/ \E k \in 1..2 : register_recv(k)
    \/ server_accept
    \/ server_prompt
    \/ server_nickname
    \/ server_welcome

SpecRegister == Init /\ [][NextRegister]_vars

\* ------------------------------------------------------------- chat server
\* server.py: ChatServer.  One accept thread (thread 0) runs
\* accept_connections; it starts one handler thread per client (thread c for
\* client c) running handle_client.  Every thread has a call stack of frames;
\* the steps are the reads and writes of self.clients and self.nicknames and
\* the socket calls, interleaved freely.

Top(t) == sv_stack[t][Len(sv_stack[t])]

Below(t) == SubSeq(sv_stack[t], 1, Len(sv_stack[t]) - 1)

Runs(t, fn, at) == sv_stack[t] # << >> /\ Top(t).fn = fn /\ Top(t).pc = at

\* the elements of a list
Members(list) == { list[k] : k \in 1..Len(list) }

\* x in list
Holds(list, x) == \E k \in 1..Len(list) : list[k] = x

\* list.index(x), counted from 1
IndexOf(list, x) ==
    CHOOSE k \in 1..Len(list) : list[k] = x /\ \A j \in 1..(k - 1) : list[j] # x

\* list.remove(x): the first occurrence goes
RemoveFirst(list, x) ==
    SubSeq(list, 1, IndexOf(list, x) - 1) \o SubSeq(list, IndexOf(list, x) + 1, Len(list))

\* list.index(x) and list.remove(x) raise ValueError
Missing(list, x) == ~Holds(list, x)

\* send and recv on a socket raise once it is closed here; send raises
\* when the client is gone
SendFails(c) == sv_sock[c].state # "open" \/ ~sv_sock[c].up

\* an exception leaves the top frame: remove_client has no handler, an
\* exception inside broadcast's except clause leaves broadcast, the bare
\* except of handle_client calls remove_client(client) and then breaks,
\* an exception inside that clause ends the thread, and the except
\* Exception of accept_connections breaks the accept loop
RECURSIVE Unwind(_)
Unwind(stack) ==
    IF stack = << >> THEN << >>
    ELSE LET top == stack[Len(stack)]
             rest == SubSeq(stack, 1, Len(stack) - 1)
         IN  IF top.fn = "handle" /\ top.pc # "except"
             THEN rest \o << [top EXCEPT !.pc = "except"],
                              Frame("remove", "check", top.client) >>
             ELSE IF top.fn = "accept" THEN << >>
             ELSE Unwind(rest)

\* the top frame returns: remove_client returns after its broadcast, and
\* handle_client breaks after its remove_client
RECURSIVE Return(_)
Return(stack) ==
    LET rest == SubSeq(stack, 1, Len(stack) - 1)
    IN  IF rest = << >> THEN << >>
        ELSE LET top == rest[Len(rest)]
             IN  IF \/ top.fn = "remove" /\ top.pc = "end"
                    \/ top.fn = "handle" /\ top.pc \in {"break", "except"}
                 THEN Return(rest)
                 ELSE rest

Raise(t) == sv_stack' = [sv_stack EXCEPT ![t] = Unwind(sv_stack[t])]

Goto(t, at) == sv_stack' = [sv_stack EXCEPT ![t] = Below(t) \o << [Top(t) EXCEPT !.pc = at] >>]

\* the caller moves on and the callee's frame goes on the stack
Call(t, at, frame) ==
    sv_stack' = [sv_stack EXCEPT ![t] = Below(t) \o << [Top(t) EXCEPT !.pc = at], frame >>]

BroadcastFrame(msg, sender) ==
    [Frame("broadcast", "next", sender) EXCEPT !.msg = msg, !.start = Members(sv_clients)]

\* a client goes away
client_disconnect(c) ==
    /\ sv_sock[c].state = "open" /\ sv_sock[c].up
    /\ sv_disconnects < MaxDisconnects
    /\ sv_disconnects' = sv_disconnects + 1
    /\ sv_sock' = [sv_sock EXCEPT ![c].up = FALSE]
    /\ UNCHANGED << sv_clients, sv_nicknames, sv_stack, sv_accepted, sv_messages,
                    sv_registered, sv_removals, sv_notices, sv_handshakeFailed >>
    /\ UNCHANGED notServer

\* client, address = self.server.accept()
accept_connections_accept ==
    /\ Runs(AcceptThread, "accept", "accept")
    /\ sv_accepted < MaxClients
    /\ sv_accepted' = sv_accepted + 1
    /\ sv_sock' = [sv_sock EXCEPT ![sv_accepted + 1] =
                      [state |-> "open", up |-> TRUE, closes |-> 0]]
    /\ sv_stack' = [sv_stack EXCEPT ![AcceptThread] =
                      << Frame("accept", "prompt", sv_accepted + 1) >>]
    /\ UNCHANGED << sv_clients, sv_nicknames, sv_messages, sv_registered,
                    sv_removals, sv_notices, sv_handshakeFailed, sv_disconnects >>
    /\ UNCHANGED notServer

\* client.send("NICK"): an error goes to except Exception, which breaks
accept_connections_prompt ==
    /\ Runs(AcceptThread, "accept", "prompt")
    /\ IF SendFails(Top(AcceptThread).client)
       THEN Raise(AcceptThread) /\ sv_handshakeFailed' = TRUE
       ELSE Goto(AcceptThread, "nick") /\ UNCHANGED sv_handshakeFailed
    /\ UNCHANGED << sv_clients, sv_nicknames, sv_sock, sv_accepted, sv_messages,
                    sv_registered, sv_removals, sv_notices, sv_disconnects >>
    /\ UNCHANGED notServer

\* nickname = client.recv(1024).decode(): the client's answer; from a client
\* that is gone the empty string or an error
accept_connections_nickname ==
    /\ Runs(AcceptThread, "accept", "nick")
    /\ LET c == Top(AcceptThread).client
       IN  \/ /\ sv_sock[c].up
              /\ \E n \in Nicknames :
                    sv_stack' = [sv_stack EXCEPT ![AcceptThread] =
                                    << [Top(AcceptThread) EXCEPT !.pc = "append", !.nick = n] >>]
              /\ UNCHANGED sv_handshakeFailed
           \/ /\ ~sv_sock[c].up
              /\ \/ Goto(AcceptThread, "append") /\ UNCHANGED sv_handshakeFailed
                 \/ Raise(AcceptThread) /\ sv_handshakeFailed' = TRUE
    /\ UNCHANGED << sv_clients, sv_nicknames, sv_sock, sv_accepted, sv_messages,
                    sv_registered, sv_removals, sv_notices, sv_disconnects >>
    /\ UNCHANGED notServer

\* self.clients.append(client)
accept_connections_append_client ==
    /\ Runs(AcceptThread, "accept", "append")
    /\ sv_clients' = Append(sv_clients, Top(AcceptThread).client)
    /\ Goto(AcceptThread, "append_nick")
    /\ UNCHANGED << sv_nicknames, sv_sock, sv_accepted, sv_messages, sv_registered,
                    sv_removals, sv_notices, sv_handshakeFailed, sv_disconnects >>
    /\ UNCHANGED notServer

\* self.nicknames.append(nickname)
accept_connections_append_nickname ==
    /\ Runs(AcceptThread, "accept", "append_nick")
    /\ sv_nicknames' = Append(sv_nicknames, Top(AcceptThread).nick)
    /\ sv_registered' = [sv_registered EXCEPT ![Top(AcceptThread).client] =
                            Top(AcceptThread).nick]
    /\ Goto(AcceptThread, "welcome")
    /\ UNCHANGED << sv_clients, sv_sock, sv_accepted, sv_messages, sv_removals,
                    sv_notices, sv_handshakeFailed, sv_disconnects >>
    /\ UNCHANGED notServer

\* client.send("Connected to KomoChat Server! ...")
accept_connections_welcome ==
    /\ Runs(AcceptThread, "accept", "welcome")
    /\ IF SendFails(Top(AcceptThread).client)
       THEN Raise(AcceptThread)
       ELSE Goto(AcceptThread, "join")
    /\ UNCHANGED << sv_clients, sv_nicknames, sv_sock, sv_accepted, sv_messages,
                    sv_registered, sv_removals, sv_notices, sv_handshakeFailed, sv_disconnects >>
    /\ UNCHANGED notServer

\* self.broadcast("... joined the chat!", client)
accept_connections_join ==
    /\ Runs(AcceptThread, "accept", "join")
    /\ Call(AcceptThread, "spawn", BroadcastFrame("joined", Top(AcceptThread).client))
    /\ UNCHANGED << sv_clients, sv_nicknames, sv_sock, sv_accepted, sv_messages,
                    sv_registered, sv_removals, sv_notices, sv_handshakeFailed, sv_disconnects >>
    /\ UNCHANGED notServer

\* threading.Thread(target=self.handle_client, args=(client,)).start(), and
\* the loop goes back to accept
accept_connections_spawn ==
    /\ Runs(AcceptThread, "accept", "spawn")
    /\ sv_stack' = [sv_stack EXCEPT
                      ![AcceptThread] = << Frame("accept", "accept", 0) >>,
                      ![Top(AcceptThread).client] =
                          << Frame("handle", "recv", Top(AcceptThread).client) >>]
    /\ UNCHANGED << sv_clients, sv_nicknames, sv_sock, sv_accepted, sv_messages,
                    sv_registered, sv_removals, sv_notices, sv_handshakeFailed, sv_disconnects >>
    /\ UNCHANGED notServer

\* for client in self.clients: the iterator takes the element at its
\* position in the list as the list is now, or ends the loop; the sender
\* is passed over
broadcast_next(t) ==
    /\ Runs(t, "broadcast", "next")
    /\ IF Top(t).i >= Len(sv_clients)
       THEN sv_stack' = [sv_stack EXCEPT ![t] = Return(sv_stack[t])]
       ELSE sv_stack' = [sv_stack EXCEPT ![t] = Below(t) \o
                            << [Top(t) EXCEPT
                                  !.i = @ + 1,
                                  !.index = sv_clients[Top(t).i + 1],
                                  !.pc = IF sv_clients[Top(t).i + 1] = Top(t).client
                                         THEN "next" ELSE "send"] >>]
    /\ UNCHANGED << sv_clients, sv_nicknames, sv_sock, sv_accepted, sv_messages,
                    sv_registered, sv_removals, sv_notices, sv_handshakeFailed, sv_disconnects >>
    /\ UNCHANGED notServer

\* client.send(message); the bare except calls self.remove_client(client)
broadcast_send(t) ==
    /\ Runs(t, "broadcast", "send")
    /\ IF SendFails(Top(t).index)
       THEN Call(t, "next", Frame("remove", "check", Top(t).index))
       ELSE sv_stack' = [sv_stack EXCEPT ![t] = Below(t) \o
                            << [Top(t) EXCEPT !.pc = "next",
                                              !.sent = @ \cup {Top(t).index}] >>]
    /\ UNCHANGED << sv_clients, sv_nicknames, sv_sock, sv_accepted, sv_messages,
                    sv_registered, sv_removals, sv_notices, sv_handshakeFailed, sv_disconnects >>
    /\ UNCHANGED notServer

\* message = client.recv(1024).decode(): a message, the empty string from
\* a client that is gone (remove_client, break), or an error
handle_client_recv(t) ==
    /\ Runs(t, "handle", "recv")
    /\ LET c == Top(t).client
       IN  \/ /\ sv_sock[c].state = "open" /\ sv_sock[c].up
              /\ sv_messages < MaxMessages
              /\ sv_messages' = sv_messages + 1
              /\ Goto(t, "index")
           \/ /\ sv_sock[c].state = "open" /\ ~sv_sock[c].up
              /\ \/ Call(t, "break", Frame("remove", "check", c))
                 \/ Raise(t)
              /\ UNCHANGED sv_messages
           \/ /\ sv_sock[c].state # "open"
              /\ Raise(t)
              /\ UNCHANGED sv_messages
    /\ UNCHANGED << sv_clients, sv_nicknames, sv_sock, sv_accepted, sv_registered,
                    sv_removals, sv_notices, sv_handshakeFailed, sv_disconnects >>
    /\ UNCHANGED notServer

\* index = self.clients.index(client)
handle_client_index(t) ==
    /\ Runs(t, "handle", "index")
    /\ IF Missing(sv_clients, Top(t).client)
       THEN Raise(t)
       ELSE sv_stack' = [sv_stack EXCEPT ![t] = Below(t) \o
                            << [Top(t) EXCEPT !.pc = "nick",
                                              !.index = IndexOf(sv_clients, Top(t).client)] >>]
    /\ UNCHANGED << sv_clients, sv_nicknames, sv_sock, sv_accepted, sv_messages,
                    sv_registered, sv_removals, sv_notices, sv_handshakeFailed, sv_disconnects >>
    /\ UNCHANGED notServer

\* nickname = self.nicknames[index]
handle_client_nickname(t) ==
    /\ Runs(t, "handle", "nick")
    /\ IF Top(t).index > Len(sv_nicknames)
       THEN Raise(t)
       ELSE sv_stack' = [sv_stack EXCEPT ![t] = Below(t) \o
                            << [Top(t) EXCEPT !.pc = "bcast",
                                              !.nick = sv_nicknames[Top(t).index]] >>]
    /\ UNCHANGED << sv_clients, sv_nicknames, sv_sock, sv_accepted, sv_messages,
                    sv_registered, sv_removals, sv_notices, sv_handshakeFailed, sv_disconnects >>
    /\ UNCHANGED notServer

\* self.broadcast(broadcast_msg, client)
handle_client_broadcast(t) ==
    /\ Runs(t, "handle", "bcast")
    /\ Call(t, "recv", BroadcastFrame("message", Top(t).client))
    /\ UNCHANGED << sv_clients, sv_nicknames, sv_sock, sv_accepted, sv_messages,
                    sv_registered, sv_removals, sv_notices, sv_handshakeFailed, sv_disconnects >>
    /\ UNCHANGED notServer

\* if client in self.clients:
remove_client_check(t) ==
    /\ Runs(t, "remove", "check")
    /\ IF Holds(sv_clients, Top(t).client)
       THEN Goto(t, "index")
       ELSE sv_stack' = [sv_stack EXCEPT ![t] = Return(sv_stack[t])]
    /\ UNCHANGED << sv_clients, sv_nicknames, sv_sock, sv_accepted, sv_messages,
                    sv_registered, sv_removals, sv_notices, sv_handshakeFailed, sv_disconnects >>
    /\ UNCHANGED notServer

\* index = self.clients.index(client)
remove_client_index(t) ==
    /\ Runs(t, "remove", "index")
    /\ IF Missing(sv_clients, Top(t).client)
       THEN Raise(t)
       ELSE sv_stack' = [sv_stack EXCEPT ![t] = Below(t) \o
                            << [Top(t) EXCEPT !.pc = "nick",
                                              !.index = IndexOf(sv_clients, Top(t).client)] >>]
    /\ UNCHANGED << sv_clients, sv_nicknames, sv_sock, sv_accepted, sv_messages,
                    sv_registered, sv_removals, sv_notices, sv_handshakeFailed, sv_disconnects >>
    /\ UNCHANGED notServer

\* nickname = self.nicknames[index]
remove_client_nickname(t) ==
    /\ Runs(t, "remove", "nick")
    /\ IF Top(t).index > Len(sv_nicknames)
       THEN Raise(t)
       ELSE sv_stack' = [sv_stack EXCEPT ![t] = Below(t) \o
                            << [Top(t) EXCEPT !.pc = "remove",
                                              !.nick = sv_nicknames[Top(t).index]] >>]
    /\ UNCHANGED << sv_clients, sv_nicknames, sv_sock, sv_accepted, sv_messages,
                    sv_registered, sv_removals, sv_notices, sv_handshakeFailed, sv_disconnects >>
    /\ UNCHANGED notServer

\* a removal that passes over a client that is no longer in the list
remove_client_remove_absent(t) ==
    /\ Runs(t, "remove", "remove")
    /\ IF Missing(sv_clients, Top(t).client)
       THEN UNCHANGED << sv_clients, sv_removals >>
       ELSE /\ sv_clients' = RemoveFirst(sv_clients, Top(t).client)
            /\ sv_removals' = [sv_removals EXCEPT ![Top(t).client] = @ + 1]
    /\ Goto(t, "remove_nick")
    /\ UNCHANGED << sv_nicknames, sv_sock, sv_accepted, sv_messages, sv_registered,
                    sv_notices, sv_handshakeFailed, sv_disconnects >>
    /\ UNCHANGED notServer

\* self.clients.remove(client)
remove_client_remove_client(t) ==
    /\ Runs(t, "remove", "remove")
    /\ IF Missing(sv_clients, Top(t).client)
       THEN Raise(t) /\ UNCHANGED << sv_clients, sv_removals >>
       ELSE /\ sv_clients' = RemoveFirst(sv_clients, Top(t).client)
            /\ sv_removals' = [sv_removals EXCEPT ![Top(t).client] = @ + 1]
            /\ Goto(t, "remove_nick")
    /\ UNCHANGED << sv_nicknames, sv_sock, sv_accepted, sv_messages, sv_registered,
                    sv_notices, sv_handshakeFailed, sv_disconnects >>
    /\ UNCHANGED notServer

\* self.nicknames.remove(nickname)
remove_client_remove_nickname(t) ==
    /\ Runs(t, "remove", "remove_nick")
    /\ IF Missing(sv_nicknames, Top(t).nick)
       THEN Raise(t) /\ UNCHANGED sv_nicknames
       ELSE /\ sv_nicknames' = RemoveFirst(sv_nicknames, Top(t).nick)
            /\ Goto(t, "close")
    /\ UNCHANGED << sv_clients, sv_sock, sv_accepted, sv_messages, sv_registered,
                    sv_removals, sv_notices, sv_handshakeFailed, sv_disconnects >>
    /\ UNCHANGED notServer

\* client.close()
remove_client_close(t) ==
    /\ Runs(t, "remove", "close")
    /\ sv_sock' = [sv_sock EXCEPT ![Top(t).client] =
                      [@ EXCEPT !.state = "closed", !.closes = @ + 1]]
    /\ Goto(t, "notice")
    /\ UNCHANGED << sv_clients, sv_nicknames, sv_accepted, sv_messages, sv_registered,
                    sv_removals, sv_notices, sv_handshakeFailed, sv_disconnects >>
    /\ UNCHANGED notServer

\* self.broadcast("... left the chat")
remove_client_notice(t) ==
    /\ Runs(t, "remove", "notice")
    /\ sv_notices' = [sv_notices EXCEPT ![Top(t).client] = @ + 1]
    /\ Call(t, "end", BroadcastFrame("left", 0))
    /\ UNCHANGED << sv_clients, sv_nicknames, sv_sock, sv_accepted, sv_messages,
                    sv_registered, sv_removals, sv_handshakeFailed, sv_disconnects >>
    /\ UNCHANGED notServer

NextServer ==
    \/ \E c \in ServerClients : client_disconnect(c)
    \/ accept_connections_accept
    \/ accept_connections_prompt
    \/ accept_connections_nickname
    \/ accept_connections_append_client
    \/ accept_connections_append_nickname
    \/ accept_connections_welcome
    \/ accept_connections_join
    \/ accept_connections_spawn
    \/ \E t \in ServerThreads : broadcast_next(t)
    \/ \E t \in ServerThreads : broadcast_send(t)
    \/ \E t \in ServerThreads : handle_client_recv(t)
    \/ \E t \in ServerThreads : handle_client_index(t)
    \/ \E t \in ServerThreads : handle_client_nickname(t)
    \/ \E t \in ServerThreads : handle_client_broadcast(t)
    \/ \E t \in ServerThreads : remove_client_check(t)
    \/ \E t \in ServerThreads : remove_client_index(t)
    \/ \E t \in ServerThreads : remove_client_nickname(t)
    \/ \E t \in ServerThreads : remove_client_remove_client(t)
    \/ \E t \in ServerThreads : remove_client_remove_nickname(t)
    \/ \E t \in ServerThreads : remove_client_close(t)
    \/ \E t \in ServerThreads : remove_client_notice(t)

SpecServer == Init /\ [][NextServer]_vars

\* ------------------------------------------------------------- claims
Range(f) == { f[i] : i \in DOMAIN f }

\* the methods of smart_connect in the order of its code
MethodOrder ==
    << "start_direct_client", "try_upnp_port_forward", "start_direct_host",
       "connect_to_relay", "generate_room_id", "connect_to_relay" >>

RECURSIVE IsSubsequence(_, _)
IsSubsequence(s, t) ==
    IF s = << >> THEN TRUE
    ELSE IF t = << >> THEN FALSE
    ELSE IF Head(s) = Head(t) THEN IsSubsequence(Tail(s), Tail(t))
    ELSE IsSubsequence(s, Tail(t))

\* C1: smart_connect invokes its methods in the documented order, and when the
\* direct TCP connect of a call has succeeded, the call returns True and has
\* invoked nothing but start_direct_client: no port mapping, no listen, no
\* relay registration, no room id generation.
C1_DirectSuccessStopsThere ==
    /\ IsSubsequence(calls, MethodOrder)
    /\ directOk => /\ pc = "returned"
                   /\ result = "true"
                   /\ calls = << "start_direct_client" >>
                   /\ regIds = << >>

C1_Witness ==
    /\ directOk
    /\ pc = "returned"
    /\ result = "true"
    /\ args.target_ip # "none"
    /\ ~args.is_host

\* C2: smart_connect returns False only after every applicable method has been
\* attempted; when hosting it neither returns False nor goes on to the relay
\* without having listened for a direct inbound connection.
C2_FailureOnlyAfterEveryMethod ==
    /\ result = "false" =>
          /\ (args.target_ip # "none" /\ ~args.is_host)
                => "start_direct_client" \in Range(calls)
          /\ args.is_host => "start_direct_host" \in Range(calls)
          /\ (args.room_id # "none" \/ args.is_host)
                => "connect_to_relay" \in Range(calls)
    /\ (args.is_host /\ "connect_to_relay" \in Range(calls))
          => "start_direct_host" \in Range(calls)

\* C3: once the receive loop of a session has read the peer's "/exit" and
\* stopped, the foreground input loop of that session stops as well: it handles
\* at most the line it was waiting for and takes no further input.
C3_ExitStopsForegroundLoop ==
    kc_after <= 1

\* C4: when the foreground loop of a session has ended, for whatever reason,
\* the socket backing the session has been closed exactly once.
C4_SessionSocketClosedOnce ==
    lastEnd # "none" => SessionSock.st = "closed" /\ SessionSock.closes = 1

\* C5: a receive loop that has read end-of-file or a read error is stopped (it
\* does not poll the dead transport again), and the running flag of its
\* session is cleared so that the foreground loop stops too.
C5_DeadTransportStopsLoops ==
    \A t \in rxDead :
        /\ rx[t] = "done"
        /\ (t = ncalls /\ pc \in { "fg_head", "fg_input" }) => ~running

\* C6: when the foreground loop has stopped because a send of user text
\* failed, the running flag is cleared, so that the receive thread stops.
C6_SendFailureClearsRunning ==
    lastEnd = "sendfail" => ~running

\* C7: at most one receive loop of the KomoChat object is reading its
\* transport at any time (the foreground loop is the only writer).
C7_SingleReceiver ==
    Cardinality({ t \in Threads : rx[t] = "recv" }) <= 1

\* C8: connect_to_relay contacts the candidates in list order; it returns True
\* exactly when a contacted candidate's response contains "success", and the
\* first such response ends the call: once a candidate has answered with the
\* marker, either the answer is still waiting to be read by the call, or the
\* call has returned True with that candidate as the last one contacted.
C8_RelayOrderAndFirstSuccess ==
    /\ contacted = [i \in 1..Len(contacted) |-> i]
    /\ Len(contacted) <= NumRelays
    /\ rcResult # "none" => (rcResult = "true" <=> markedAt # 0)
    /\ markedAt # 0 =>
          \/ /\ rcResult = "true"
             /\ contacted[Len(contacted)] = markedAt
          \/ /\ pc = "rc_recv"
             /\ idx = markedAt
             /\ socket.buf # << >>

\* C9: whenever connect_to_relay goes on to the next candidate, and when it
\* returns False, the socket of the candidate that did not complete
\* registration has been closed.
C9_FailedCandidateClosed ==
    ((pc = "rc_loop" /\ contacted # << >>) \/ rcResult = "false")
        => socket.st = "closed"

\* C10: connect_to_relay is never blocked for good: while it waits for the
\* response of a relay that will never answer, a step of connect_to_relay
\* (the read timing out) is possible.
C10_RelayReadNeverBlocks ==
    (pc = "rc_recv" /\ wait = "silent") => ENABLED connect_to_relay_step

\* C11: the wait of a host for a direct inbound connection is bounded: while
\* start_direct_host waits for a peer that will never connect, a step of it
\* (the wait giving up) is possible, so that smart_connect can go on.
C11_HostWaitIsBounded ==
    (pc = "host_accept" /\ wait = "silent") => ENABLED start_direct_host_step

\* C12: smart_connect generates a room id only when hosting and when no room
\* id was supplied: a call that has registered the supplied id generates none
\* and registers no other id with a relay.
C12_GeneratesOnlyWithoutSuppliedId ==
    /\ "generate_room_id" \in Range(calls) => args.is_host
    /\ "ROOM" \in Range(regIds) =>
          /\ "generate_room_id" \notin Range(calls)
          /\ \A i \in DOMAIN regIds : regIds[i] = "ROOM"

\* try_upnp_port_forward was called by the current call and returned False
UpnpFailed ==
    /\ "try_upnp_port_forward" \in Range(calls)
    /\ "start_direct_host" \notin Range(calls)
    /\ pc # "host_bind"

\* C13: a failed or absent port mapping is not fatal: a hosting call whose
\* port mapping failed returns only after it has attempted the relay
\* registration, it returns False only when that registration failed, and it
\* can return True through the relay.
C13_PortMappingFailureNotFatal ==
    (args.is_host /\ UpnpFailed /\ pc = "returned") =>
        /\ "connect_to_relay" \in Range(calls)
        /\ regIds # << >>
        /\ result = "false" => rcResult = "false"
        /\ result = "true" => rcResult = "true"

C13_Witness ==
    /\ args.is_host
    /\ UpnpFailed
    /\ pc = "returned"
    /\ result = "true"
    /\ rcResult = "true"

\* C14: no network failure escapes a method attempt: smart_connect never lets
\* an exception of a network operation through, and when it returns without
\* having been interrupted by the operator its result is True or False.
C14_NetworkFailuresBecomeFalse ==
    /\ result \notin NetworkErrors
    /\ (pc = "returned" /\ result # "KeyboardInterrupt") =>
          result \in { "true", "false" }

C14_Witness ==
    /\ pc = "returned"
    /\ result = "false"
    /\ args.is_host
    /\ "start_direct_host" \in Range(calls)
    /\ rcResult = "false"
    /\ Len(contacted) = NumRelays

\* C15: on the direct paths "/exit" is transmitted only as the end-of-session
\* control: a transmitted "/exit" is the last frame of its session and the
\* foreground loop that sent it makes no further pass.
C15_ExitIsLastFrame ==
    /\ \A i \in DOMAIN sent :
          (sent[i].via = "peer_socket" /\ sent[i].frame = "/exit") =>
              /\ i = Len(sent)
              /\ pc \notin { "fg_head", "fg_input" }
    /\ \A i \in DOMAIN kc_sent :
          kc_sent[i] = "/exit" =>
              /\ i = Len(kc_sent)
              /\ kc_pc # "input"

C15_Witness ==
    /\ Len(sent) = 2
    /\ sent[1] = [via |-> "peer_socket", frame |-> "hi"]
    /\ sent[2] = [via |-> "peer_socket", frame |-> "/exit"]
    /\ lastEnd = "exit"

\* C16: a step of a foreground loop that handles a display command (in any
\* letter case) writes nothing to the transport, leaves the sockets and the
\* session's state as they are and stays in the loop.
C16_DisplayCommandsAreLocal ==
    [][ /\ (\E m \in DisplayLines, ok \in BOOLEAN : foreground_line(m, ok)) =>
              /\ UNCHANGED << socket, peer_socket, running, sent, lastEnd >>
              /\ pc' = "fg_head"
        /\ (\E m \in DisplayLines, ok \in BOOLEAN : chat_session_line(m, ok)) =>
              /\ UNCHANGED << server_socket, client_socket, kc_sent, kc_end >>
              /\ kc_pc' = "input" ]_vars

C16_Witness ==
    /\ kc_pc = "input"
    /\ kc_last = "/STATUS"
    /\ kc_rx[kc_calls] = "recv"
    /\ kc_sent = << "hi" >>

ReceiveReports ==
    IF kc_calls \in Threads /\ kc_rxEnd[kc_calls] \in { "closed", "reset" } THEN 1 ELSE 0

ForegroundReports == IF kc_end \in { "sendfail", "raised" } THEN 1 ELSE 0

\* C18: a transport failure during a chat session is reported once: the
\* receive loop and the foreground loop of one session never report it both.
C18_FailureReportedOnce == ReceiveReports + ForegroundReports <= 1

\* C19: receive_message on the relayed stream returns the content member of
\* a payload that is one JSON object of type "message", the payload as text
\* when the payload is not JSON, and None when nothing arrives within the
\* timeout; after a timeout the receive thread leaves the session running.
C19_RelayReceive ==
    (rm_in.via = "socket" /\ rm_pc \in { "returned", "head" }) =>
        /\ \A c \in { "hi", "/exit" } :
              rm_in.data = << ObjectFrame("message", c) >> => rm_out = Content(c)
        /\ ( /\ rm_in.outcome = "data"
             /\ rm_in.data # << >>
             /\ \/ \E i \in DOMAIN rm_in.data : rm_in.data[i].kind = "text"
                \/ Len(rm_in.data) > 1 ) =>
              rm_out = Raw(rm_in.data)
        /\ rm_in.outcome = "timeout" => rm_out = None /\ rm_running

C19_Witness ==
    /\ rm_pc = "head"
    /\ rm_in.via = "socket"
    /\ rm_in.data = << ObjectFrame("message", "hi") >>
    /\ rm_out = Content("hi")
    /\ rm_running

\* a step does not replace socket s by a newly connected or listening one
NoNewConnection(s, t) ==
    /\ t.st = "open" => s.st = "open"
    /\ t.conn \in { "conn", "listen" } => t.conn = s.conn
    /\ t.est = s.est

\* C20: once a session is established, and after it until the operator asks
\* for a connection at the menu, no step calls a connection method, registers
\* with a relay or brings up a connection on either socket; a failed send or
\* receive leads nowhere but to the end of the session.
C20_NoAutomaticReconnection ==
    [][ /\ pc \in { "session", "fg_head", "fg_input", "menu" } =>
              /\ UNCHANGED << calls, regIds, contacted >>
              /\ NoNewConnection(socket, socket')
              /\ NoNewConnection(peer_socket, peer_socket')
        /\ pc \in { "session", "fg_head", "fg_input" } =>
              pc' \in { "session", "fg_head", "fg_input", "menu" }
        /\ pc = "menu" =>
              \/ pc' \in { "menu", "exited" }
              \/ pc' = "m1" /\ ncalls' = ncalls + 1 ]_vars

C20_Witness ==
    /\ pc = "menu"
    /\ lastEnd = "sendfail"
    /\ ncalls \in rxDead
    /\ calls = << >>
    /\ contacted = << >>

\* C21: when no datagram is lost and no other sender interferes, neither side
\* of the hole punch fails and the negotiation goes on until both are
\* CONFIRMED, with at most PunchAttempts handshake sends: the host confirms on
\* the first handshake it receives and acknowledges it once, and the guest
\* confirms on that acknowledgment.
C21_PunchConfirms ==
    (hp_lost = 0 /\ hp_strays = 0) =>
        /\ hp_host # "FAILED"
        /\ hp_guest # "FAILED"
        /\ attemptsSent <= PunchAttempts
        /\ hp_host = "CONFIRMED" => (hp_hostGot = 1 /\ hp_acks = 1 /\ hp_peer = GuestIP)
        /\ hp_guest = "CONFIRMED" =>
              (hp_guestGot = Datagram(HostIP, ACK) /\ hp_host = "CONFIRMED")
        /\ \/ hp_host = "CONFIRMED" /\ hp_guest = "CONFIRMED"
           \/ ENABLED PunchStep

C21_Witness ==
    /\ hp_lost = 0
    /\ hp_strays = 0
    /\ hp_host = "CONFIRMED"
    /\ hp_guest = "CONFIRMED"
    /\ attemptsSent = PunchAttempts

\* C22: as long as the host has received no punch packet, neither side is
\* CONFIRMED, and neither waits forever: once the network holds no handshake
\* for the host, either both sides have ended in failure or a step other than
\* the host's receipt is enabled (a send, a wait that ends, a timeout).
C22_PunchTimesOut ==
    hp_hostGot = 0 =>
        /\ hp_host \in {"LISTENING", "FAILED"}
        /\ hp_guest # "CONFIRMED"
        /\ hp_acks = 0
        /\ \/ hp_host = "FAILED" /\ hp_guest = "FAILED"
           \/ hp_toHost > 0
           \/ ENABLED (guest_bind \/ guest_send \/ guest_wait \/ guest_recv
                          \/ guest_timeout \/ host_timeout)

C22_Witness ==
    /\ hp_hostGot = 0
    /\ hp_lost = PunchAttempts
    /\ hp_host = "FAILED"
    /\ hp_guest = "FAILED"
    /\ hp_guestGot = TimedOut

\* C23: the guest is CONFIRMED only if the one datagram it read is the
\* acknowledgment literal sent from the expected peer's IP; a datagram from
\* another sender, a datagram that is not the acknowledgment, or a timeout
\* leave it in the failure state, which no guest step leaves.
C23_GuestConfirmsOnPeerAck ==
    /\ hp_guest = "CONFIRMED" => hp_guestGot = Datagram(HostIP, ACK)
    /\ (hp_guestGot # NoDatagram /\ hp_guestGot # Datagram(HostIP, ACK)) =>
          hp_guest = "FAILED"
    /\ hp_guest \in {"FAILED", "CONFIRMED"} =>
          ~ENABLED (guest_bind \/ guest_send \/ guest_wait \/ guest_recv
                       \/ guest_timeout)

C23_Witness ==
    /\ hp_guestGot = Datagram("other", ACK)
    /\ hp_guest = "FAILED"
    /\ hp_host = "CONFIRMED"
    /\ Datagram(HostIP, ACK) \in hp_toGuest

\* decoding by hand a byte that is 0, 255 or the cookie's byte k:
\* 0 xor k = k, 255 xor k = 255 - k, k xor k = 0
HandXor(b, k) == IF b = 0 THEN k ELSE IF b = k THEN 0 ELSE 255 - k

\* bytes 20-23 and 26-27 of a packet decoded by hand against 0x21, 0x12, 0xA4,
\* 0x42 and against 0x21, 0x12
HandDecoded(data) ==
    [ok |-> TRUE,
     ip |-> << HandXor(data[21], 33), HandXor(data[22], 18),
               HandXor(data[23], 164), HandXor(data[24], 66) >>,
     port |-> HandXor(data[27], 33) * 256 + HandXor(data[28], 18)]

C26_LocalAddressOrLoopback ==
    /\ ar_tried = << >> => ar_raised = "none"
    /\ ar_pc \in {"local_socket", "local_connect", "local_getsockname"} =>
          ar_local = Unset
    /\ ar_pc \in {"public", "done"} =>
          ar_local = IF ar_localErr = "none" THEN Str(ar_route)
                     ELSE Str("127.0.0.1")
    /\ (ar_local # Unset /\ ar_localErr = "none") => ar_route \in RouteAddresses

C26_Witness ==
    /\ ar_pc = "public"
    /\ ar_localErr = "OSError"
    /\ ar_route = ""
    /\ ar_local = Str("127.0.0.1")

\* C27: once the background loop of the session has read the peer's "/exit"
\* (Chat.py: it has cleared self.running while the foreground loop waits in
\* input(); KomoChat.py: receive_messages of the session has ended on it), no
\* step writes a frame of user text: the only frame written after that, if
\* any, is the local "/exit".
C27_NoTextAfterPeerLeft ==
    [][ /\ (pc = "fg_input" /\ ~running /\ sent' # sent) =>
              sent'[Len(sent')].frame = "/exit"
        /\ (kc_pc = "input" /\ kc_rxEnd[kc_calls] = "exit" /\ kc_sent' # kc_sent) =>
              kc_sent'[Len(kc_sent')] = "/exit"
      ]_vars

\* C28: a message envelope received from the relay whose content is the text
\* "/exit" is user text: after the receive thread has handled it, the
\* session is still running.
C28_EnvelopeExitIsText ==
    (/\ rm_pc = "head"
     /\ rm_in.via = "socket"
     /\ rm_in.outcome = "data"
     /\ rm_in.data = << ObjectFrame("message", "/exit") >>) => rm_running

\* C29: a smart_connect call with is_host False invokes nothing but
\* start_direct_client, and only when a target address was given, and
\* connect_to_relay, and only with the room id it was given: no port mapping,
\* no listening socket, no generated room id.
C29_GuestMethods ==
    (pc \notin {"menu", "session", "fg_head", "fg_input", "exited"} /\ ~args.is_host) =>
        /\ Range(calls) \subseteq {"start_direct_client", "connect_to_relay"}
        /\ "start_direct_client" \in Range(calls) => args.target_ip # "none"
        /\ "connect_to_relay" \in Range(calls) => args.room_id = "ROOM"
        /\ Len(regIds) <= 1
        /\ \A i \in DOMAIN regIds : regIds[i] = "ROOM"
        /\ pc \notin {"host_bind", "host_accept"}

C29_Witness ==
    /\ ~args.is_host
    /\ pc = "returned"
    /\ result = "false"
    /\ calls = << "start_direct_client", "connect_to_relay" >>
    /\ regIds = << "ROOM" >>

\* C30: while a chat session runs, the socket that send_message and
\* receive_message use is the one established by the smart_connect call that
\* started the session, and every frame written in the session went over it.
C30_SessionUsesItsTransport ==
    pc \in {"fg_head", "fg_input"} =>
        /\ Transport.est = ncalls
        /\ \A i \in DOMAIN sent : sent[i].via = TransportName

\* C31: a text that the peer wrote with send_message and the relay forwarded
\* unchanged, read by one recv on self.socket, is returned by receive_message
\* as it was written, whatever the text, a JSON document included.
C31_RelayTextRoundTrip ==
    (/\ rm_pc = "returned"
     /\ rm_in.via = "socket"
     /\ rm_in.outcome = "data"
     /\ Len(rm_in.data) = 1) => rm_out = Raw(rm_in.data)

\* C32: on a direct stream a written "/exit" is always recognised: once the
\* peer has written "/exit" and the receive loop has read everything the peer
\* wrote from the live connection, the loop has ended on the control
\* (KomoChat.py) or has cleared self.running (Chat.py); a recv never returns
\* the control merged with the frame written before it.
C32_ExitFrameRecognised ==
    /\ \A t \in Threads :
          (/\ kc_peerExit[t]
           /\ kc_rx[t] # "idle"
           /\ IsLive(client_socket[t])
           /\ client_socket[t].buf = << >>) => kc_rxEnd[t] = "exit"
    /\ (/\ pc \in {"fg_head", "fg_input"}
        /\ peerExit
        /\ IsLive(SessionSock)
        /\ SessionSock.buf = << >>) => ~running

\* C33: a guest who types the room code as it was displayed to the host
\* registers under the room_id the host registered under.
C33_GuestJoinsHostRoom ==
    room_pc = "joined" => room_guestId = room_hostId

\* C34: a client that registers with ChatServer completes registration: once
\* connect_to_relay has read the server's response, it has accepted it as
\* success.
C34_ServerResponseAccepted ==
    rg_client = "decided" => rg_result = "success"

\* C35: when broadcast has gone through the list, every client that was
\* connected when it started and still is, other than the sender, has been
\* sent the message: none is skipped because another client was removed
\* during the broadcast
C35_BroadcastSkipsNoClient ==
    \A t \in ServerThreads :
        (Runs(t, "broadcast", "next") /\ Top(t).i >= Len(sv_clients)) =>
            \A c \in (Top(t).start \cap Members(sv_clients)) \ {Top(t).client} :
                c \in Top(t).sent

\* no thread is between the two appends of a join or the two removals of
\* remove_client
Settled ==
    \A t \in ServerThreads :
        \A k \in 1..Len(sv_stack[t]) : sv_stack[t][k].pc \notin {"append_nick", "remove_nick"}

\* C36: whenever no join or removal is half done, clients and nicknames
\* have the same length and nicknames[i] is the nickname clients[i]
\* registered with
C36_ListsAligned ==
    Settled =>
        /\ Len(sv_nicknames) = Len(sv_clients)
        /\ \A k \in 1..Len(sv_clients) : sv_nicknames[k] = sv_registered[sv_clients[k]]

\* C37: under every interleaving of the accept thread and the handler
\* threads a client is removed from the list at most once, its socket is
\* closed at most once and its "left the chat" notice is broadcast at most
\* once, and only a removed client is closed and announced
C37_RemovedOnce ==
    \A c \in ServerClients :
        /\ sv_removals[c] <= 1
        /\ sv_sock[c].closes <= sv_removals[c]
        /\ sv_notices[c] <= sv_sock[c].closes

\* the thread has a remove_client(c) call at one of these statements
Removing(t, c, at) ==
    \E k \in 1..Len(sv_stack[t]) :
        /\ sv_stack[t][k].fn = "remove"
        /\ sv_stack[t][k].client = c
        /\ sv_stack[t][k].pc \in at

\* two threads are inside remove_client for the same client, both past the
\* membership test, and one of them has taken the client off the list
C37_Witness ==
    \E c \in ServerClients : \E t1, t2 \in ServerThreads :
        /\ t1 # t2
        /\ Removing(t1, c, {"remove_nick", "close", "notice", "end"})
        /\ Removing(t2, c, {"index", "nick", "remove"})
        /\ sv_removals[c] = 1

\* C38: after the handshake with one connecting client has failed, the
\* accept loop is still running
C38_AcceptLoopSurvives ==
    sv_handshakeFailed => sv_stack[AcceptThread] # << >>

====
